------------------------- MODULE RegionsLinesProofs -------------------------
(***************************************************************************)
(* Proofs about the lines Regions prints: with whatever constructs around  *)
(* it, on the way out of captures and of the render cache, and after an    *)
(* error unwound some of them, a line is indented once for each @tab       *)
(* region around it, but for the cases IrregularTab names.                 *)
(***************************************************************************)
EXTENDS RegionsProofs

-----------------------------------------------------------------------------
(* A text and the column it ends at *)

(* The column after a cell: the indents since the start of the line, or Mid *)
(* once the line holds something else.                                      *)
Mid == -1
After(column, cell) ==
  IF cell.c = "nl" THEN 0 ELSE IF cell.c = "ind" /\ column # Mid THEN column + 1 ELSE Mid

Columns(s, col) ==
  /\ col \in [0 .. Len(s) -> Nat \cup {Mid}] /\ col[0] = 0
  /\ \A i \in 1 .. Len(s) : col[i] = After(col[i - 1], s[i])

(* The first cell of a line that is no indent comes after as many as it     *)
(* wants.                                                                   *)
Wanted(cell) == IF cell.c = "nl" THEN 0 ELSE cell.lvl
Suits(column, cell) == cell.c # "ind" /\ column # Mid => column = Wanted(cell)

(* A text that is indented as it should be and ends at `column`.            *)
Indented(s, column) ==
  \E col : /\ Columns(s, col) /\ col[Len(s)] = column
           /\ \A i \in 1 .. Len(s) : Suits(col[i - 1], s[i])
Whole(s) == Indented(s, 0) \/ Indented(s, Mid)

(* One can go on writing: the text is in the middle of a line, or at the    *)
(* start of one and the active indent is still to come.                     *)
Resumable(s, indent, bol) ==
  Indented(s, Mid) \/ (Indented(s, 0) /\ (indent = 0 \/ bol = TRUE))

LEMMA EmptyIsWhole == Indented(<<>>, 0)
<1> DEFINE col == [i \in 0 .. 0 |-> 0]
<1>1. Len(<<>>) = 0
  OBVIOUS
<1>2. \A i \in 1 .. Len(<<>>) : FALSE
  BY <1>1
<1>3. col \in [0 .. Len(<<>>) -> Int] /\ col[0] = 0
  BY <1>1
<1> HIDE DEF col
<1> QED BY <1>1, <1>2, <1>3 DEF Indented, Columns

(* Between a line start and the first cell that is no indent, the column    *)
(* counts the indents.                                                      *)
LEMMA RunCounts ==
  ASSUME NEW C, NEW s \in Seq(C), NEW col, Columns(s, col),
         NEW p \in 1 .. Len(s), LineStart(s, p),
         NEW e \in p - 1 .. Len(s), \A k \in p .. e : s[k].c = "ind"
  PROVE  col[e] = e - (p - 1)
<1>1. Len(s) \in Nat /\ p \in Nat /\ e \in Nat /\ e - (p - 1) \in Nat
  OBVIOUS
<1>2. col[p - 1] = 0
  <2>1. CASE p = 1
    BY <2>1 DEF Columns
  <2>2. CASE p # 1
    <3>1. p - 1 \in 1 .. Len(s) /\ s[p - 1].c = "nl"
      BY <1>1, <2>2 DEF LineStart
    <3> QED BY <3>1 DEF Columns, After
  <2> QED BY <2>1, <2>2
<1> DEFINE n == e - (p - 1)
           f == [i \in 0 .. n |-> col[p - 1 + i] = i]
<1>3. f[0] \in {TRUE}
  <2>1. p - 1 + 0 = p - 1 /\ 0 \in 0 .. n
    BY <1>1
  <2>2. col[p - 1 + 0] = 0
    BY <1>2, <2>1
  <2>3. f[0] = (col[p - 1 + 0] = 0)
    BY <2>1
  <2> QED BY <2>2, <2>3
<1>4. ASSUME NEW i \in 1 .. n, f[i - 1] \in {TRUE} PROVE f[i] \in {TRUE}
  <2>1. i \in Int /\ i - 1 \in 0 .. n /\ p - 1 + i \in p .. e /\ p - 1 + i \in 1 .. Len(s)
    BY <1>1
  <2>2. p - 1 + (i - 1) = (p - 1 + i) - 1
    BY <1>1, <2>1
  <2>3. col[p - 1 + (i - 1)] = i - 1
    BY <1>4, <2>1
  <2>4. s[p - 1 + i].c = "ind"
    BY <2>1
  <2>5. col[p - 1 + i] = After(col[(p - 1 + i) - 1], s[p - 1 + i])
    BY <2>1 DEF Columns
  <2>6. col[p - 1 + i] = After(i - 1, s[p - 1 + i])
    BY <2>2, <2>3, <2>5
  <2>7. i - 1 # Mid
    BY <1>1, <2>1 DEF Mid
  <2>8. col[p - 1 + i] = i
    BY <2>1, <2>4, <2>6, <2>7 DEF After
  <2>9. f[i] = (col[p - 1 + i] = i)
    BY <2>1
  <2> QED BY <2>8, <2>9
<1>5. n \in Nat
  BY <1>1
<1> HIDE DEF f, n
<1>6. \A i \in 0 .. n : f[i] \in {TRUE}
  <2>1. \A i \in 1 .. n : f[i - 1] \in {TRUE} => f[i] \in {TRUE}
    BY <1>4
  <2> DEFINE G == {TRUE}
  <2>2. f[0] \in G /\ \A i \in 1 .. n : f[i - 1] \in G => f[i] \in G
    BY <1>3, <2>1
  <2> HIDE DEF G
  <2>3. \A i \in 0 .. n : f[i] \in G
    BY <1>5, <2>2, StepsStay
  <2> QED BY <2>3 DEF G
<1>7. n \in 0 .. n /\ p - 1 + n = e
  BY <1>1 DEF n
<1>8. f[n] = TRUE
  BY <1>6, <1>7
<1>9. f[n] = (col[p - 1 + n] = n)
  BY <1>7 DEF f
<1> QED BY <1>7, <1>8, <1>9 DEF n

LEMMA WholeIsIndented ==
  ASSUME NEW C, NEW s \in Seq(C), Whole(s), NEW p \in 1 .. Len(s), LineStart(s, p)
  PROVE  IndentedBy(s, p)
<1>1. PICK col : /\ Columns(s, col) /\ col[Len(s)] \in {0, Mid}
                 /\ \A i \in 1 .. Len(s) : Suits(col[i - 1], s[i])
  BY DEF Whole, Indented
<1>2. Len(s) \in Nat /\ p \in Nat
  OBVIOUS
<1> DEFINE Others == {k \in p .. Len(s) : s[k].c # "ind"}
<1>3. Others # {}
  <2> SUFFICES ASSUME Others = {} PROVE FALSE
    OBVIOUS
  <2>1. \A k \in p .. Len(s) : s[k].c = "ind"
    OBVIOUS
  <2>2. Len(s) \in p - 1 .. Len(s)
    BY <1>2
  <2>3. col[Len(s)] = Len(s) - (p - 1)
    BY <1>1, <2>1, <2>2, RunCounts
  <2> QED BY <1>1, <1>2, <2>3 DEF Mid
<1>4. Others \subseteq Nat
  BY <1>2
<1>5. PICK first \in Others : \A k \in Others : first <= k
  BY <1>3, <1>4, LeastNatural
<1>6. /\ first \in p .. Len(s) /\ s[first].c # "ind"
      /\ \A k \in p .. first - 1 : s[k].c = "ind"
  BY <1>2, <1>5
<1> HIDE DEF Others
<1>7. first - 1 \in p - 1 .. Len(s) /\ first \in 1 .. Len(s)
  BY <1>2, <1>6
<1>8. col[first - 1] = first - 1 - (p - 1)
  BY <1>1, <1>6, <1>7, RunCounts
<1>9. first - 1 - (p - 1) = first - p /\ first - p # Mid
  BY <1>2, <1>6 DEF Mid
<1>10. first - p = Wanted(s[first])
  <2>1. Suits(col[first - 1], s[first])
    BY <1>1, <1>7
  <2> QED BY <1>6, <1>8, <1>9, <2>1 DEF Suits
<1> QED BY <1>6, <1>10 DEF IndentedBy, Wanted

(* Appending `k` indents and a cell. *)
LEMMA IndentsGrow ==
  ASSUME NEW C, Indent \in C, NEW s \in Seq(C), NEW column \in Nat \cup {Mid}, Indented(s, column),
         NEW k \in Nat
  PROVE  Indented(s \o [i \in 1 .. k |-> Indent], IF column = Mid THEN Mid ELSE column + k)
<1> DEFINE m == Len(s)
           more == [i \in 1 .. k |-> Indent]
           t == s \o more
<1>1. PICK col : /\ Columns(s, col) /\ col[m] = column
                 /\ \A i \in 1 .. m : Suits(col[i - 1], s[i])
  BY DEF Indented
<1> DEFINE ext == [i \in 0 .. m + k |-> IF i <= m THEN col[i]
                                        ELSE IF column = Mid THEN Mid ELSE column + (i - m)]
<1>2. m \in Nat /\ more \in Seq(C) /\ Len(more) = k
  OBVIOUS
<1>3. /\ t \in Seq(C) /\ Len(t) = m + k
      /\ \A i \in 1 .. m : t[i] = s[i]
      /\ \A i \in m + 1 .. m + k : t[i] = Indent
  <2>1. \A i \in m + 1 .. m + k : i - m \in 1 .. k /\ more[i - m] = Indent
    BY <1>2
  <2> HIDE DEF more
  <2>2. t \in Seq(C) /\ Len(t) = m + k
    BY <1>2
  <2>3. \A i \in 1 .. m : t[i] = s[i]
    BY <1>2
  <2>4. \A i \in m + 1 .. m + k : t[i] = more[i - m]
    BY <1>2
  <2> QED BY <2>1, <2>2, <2>3, <2>4
<1> HIDE DEF t, more, m
<1>4. /\ ext \in [0 .. m + k -> Nat \cup {Mid}] /\ ext[0] = 0
      /\ \A i \in 0 .. m : ext[i] = col[i]
      /\ \A i \in m + 1 .. m + k : ext[i] = IF column = Mid THEN Mid ELSE column + (i - m)
      /\ ext[m + k] = IF column = Mid THEN Mid ELSE column + k
  <2>1. col[0] = 0 /\ \A i \in 0 .. m : col[i] \in Nat \cup {Mid}
    BY <1>1 DEF Columns, m
  <2>2. \A i \in 0 .. m + k : ext[i] = IF i <= m THEN col[i]
                                      ELSE IF column = Mid THEN Mid ELSE column + (i - m)
    OBVIOUS
  <2>3. DOMAIN ext = 0 .. m + k /\ ext = [i \in 0 .. m + k |-> ext[i]]
    OBVIOUS
  <2> HIDE DEF ext
  <2>4. \A i \in 0 .. m : ext[i] = col[i]
    BY <1>2, <2>2
  <2>5. \A i \in m + 1 .. m + k : ext[i] = IF column = Mid THEN Mid ELSE column + (i - m)
    BY <1>2, <2>2
  <2>6. \A i \in 0 .. m + k : i \in 0 .. m \/ i \in m + 1 .. m + k
    BY <1>2
  <2>7. \A i \in m + 1 .. m + k : i - m \in Nat
    BY <1>2
  <2>8. \A i \in m + 1 .. m + k : ext[i] \in Nat \cup {Mid}
    BY <2>5, <2>7
  <2>9. ext \in [0 .. m + k -> Nat \cup {Mid}]
    BY <2>1, <2>3, <2>4, <2>6, <2>8
  <2>10. ext[0] = 0
    BY <1>2, <2>1, <2>4
  <2>11. ext[m + k] = IF column = Mid THEN Mid ELSE column + k
    <3>1. CASE k = 0
      <4>1. m + k = m /\ m \in 0 .. m /\ column + k = column
        BY <1>2, <3>1
      <4>2. ext[m + k] = column
        BY <1>1, <2>4, <4>1
      <4> QED BY <4>1, <4>2
    <3>2. CASE k # 0
      <4>1. m + k \in m + 1 .. m + k /\ (m + k) - m = k
        BY <1>2, <3>2
      <4>2. ext[m + k] = IF column = Mid THEN Mid ELSE column + ((m + k) - m)
        BY <2>5, <4>1
      <4> QED BY <4>1, <4>2
    <3> QED BY <3>1, <3>2
  <2> QED BY <2>4, <2>5, <2>9, <2>10, <2>11
<1> HIDE DEF ext
<1>6. \A i \in 1 .. m : col[i] = After(col[i - 1], s[i])
  BY <1>1 DEF Columns, m
<1>5. ASSUME NEW i \in 1 .. m + k
      PROVE  ext[i] = After(ext[i - 1], t[i]) /\ Suits(ext[i - 1], t[i])
  <2>1. CASE i \in 1 .. m
    <3>1. i \in 0 .. m /\ i - 1 \in 0 .. m
      BY <1>2, <2>1
    <3> QED BY <1>1, <1>3, <1>4, <1>6, <2>1, <3>1
  <2>2. CASE i \in m + 1 .. m + k
    <3>1. t[i] = Indent /\ Indent.c = "ind"
      BY <1>3, <2>2 DEF Indent
    <3>2. ext[i - 1] = IF column = Mid THEN Mid ELSE column + (i - 1 - m)
      <4>1. CASE i = m + 1
        <5>1. i - 1 = m /\ m \in 0 .. m
          BY <1>2, <4>1
        <5>2. ext[i - 1] = column
          BY <1>1, <1>4, <5>1
        <5> QED BY <1>2, <4>1, <5>2
      <4>2. CASE i # m + 1
        BY <1>2, <1>4, <2>2, <4>2
      <4> QED BY <4>1, <4>2
    <3>3. ext[i] = IF column = Mid THEN Mid ELSE column + (i - m)
      BY <1>4, <2>2
    <3>4. column # Mid => column + (i - 1 - m) # Mid
      <4>1. column # Mid => column \in Nat /\ i - 1 - m \in Nat
        BY <1>2, <2>2
      <4> QED BY <4>1 DEF Mid
    <3>5. ext[i] = After(ext[i - 1], t[i])
      BY <1>2, <2>2, <3>1, <3>2, <3>3, <3>4 DEF After
    <3> QED BY <3>1, <3>5 DEF Suits
  <2> QED BY <1>2, <2>1, <2>2
<1>7. Columns(t, ext) /\ ext[Len(t)] = IF column = Mid THEN Mid ELSE column + k
  BY <1>3, <1>4, <1>5 DEF Columns
<1>8. Indented(t, IF column = Mid THEN Mid ELSE column + k)
  BY <1>3, <1>5, <1>7 DEF Indented
<1> QED BY <1>8 DEF t, more

LEMMA CellGrows ==
  ASSUME NEW C, NEW s \in Seq(C), NEW cell, NEW column \in Nat \cup {Mid}, Indented(s, column),
         Suits(column, cell)
  PROVE  Indented(Append(s, cell), After(column, cell))
<1> DEFINE m == Len(s)
           t == Append(s, cell)
<1>1. PICK col : /\ Columns(s, col) /\ col[m] = column
                 /\ \A i \in 1 .. m : Suits(col[i - 1], s[i])
  BY DEF Indented
<1>2. m \in Nat
  OBVIOUS
<1>3. Len(t) = m + 1 /\ t[m + 1] = cell /\ \A i \in 1 .. m : t[i] = s[i]
  <2>1. s \in Seq(C \cup {cell})
    OBVIOUS
  <2> QED BY <2>1
<1> DEFINE ext == [i \in 0 .. m + 1 |-> IF i = m + 1 THEN After(column, cell) ELSE col[i]]
<1>4. /\ \A i \in 0 .. m : ext[i] = col[i]
      /\ ext[m + 1] = After(column, cell)
  BY <1>2
<1>5. col \in [0 .. m -> Nat \cup {Mid}] /\ col[0] = 0
      /\ \A i \in 1 .. m : col[i] = After(col[i - 1], s[i])
  BY <1>1 DEF Columns, m
<1>6. After(column, cell) \in Nat \cup {Mid}
  BY DEF After
<1>7. ext \in [0 .. m + 1 -> Nat \cup {Mid}]
  <2>1. \A i \in 0 .. m + 1 : i # m + 1 => i \in 0 .. m
    BY <1>2
  <2>2. \A i \in 0 .. m + 1 : (IF i = m + 1 THEN After(column, cell) ELSE col[i]) \in Nat \cup {Mid}
    BY <1>5, <1>6, <2>1
  <2> QED BY <2>2
<1> HIDE DEF ext, t, m
<1>8. ASSUME NEW i \in 1 .. m + 1
      PROVE  ext[i] = After(ext[i - 1], t[i]) /\ Suits(ext[i - 1], t[i])
  <2>1. CASE i \in 1 .. m
    <3>1. i \in 0 .. m /\ i - 1 \in 0 .. m
      BY <1>2, <2>1
    <3> QED BY <1>1, <1>3, <1>4, <1>5, <2>1, <3>1
  <2>2. CASE i = m + 1
    <3>1. i - 1 = m /\ m \in 0 .. m
      BY <1>2, <2>2
    <3>2. ext[i - 1] = column
      BY <1>1, <1>4, <3>1
    <3> QED BY <1>3, <1>4, <2>2, <3>2
  <2> QED BY <1>2, <2>1, <2>2
<1>9. ext[0] = 0
  BY <1>2, <1>4, <1>5
<1>10. Columns(t, ext) /\ ext[Len(t)] = After(column, cell)
  BY <1>3, <1>4, <1>7, <1>8, <1>9 DEF Columns
<1>11. Indented(t, After(column, cell))
  BY <1>3, <1>8, <1>10 DEF Indented
<1> QED BY <1>11 DEF t

(* The text `t` is the text `u` inside `d` more @tab regions.               *)
Shifted(u, t, d) ==
  /\ Len(t) = Len(u)
  /\ \A i \in 1 .. Len(u) :
       /\ t[i].c = u[i].c /\ u[i].c \in {"nl", "ind", "x"}
       /\ u[i].c = "x" => t[i].lvl = u[i].lvl + d

(* Where the sink is when the text written so far ends at column `there`.   *)
Meets(there, here, d, bol) ==
  here # Mid =>
    \/ there = 0 /\ here = 0 /\ (d = 0 \/ bol = TRUE)
    \/ there \in Nat \ {0} /\ here = there + d /\ (d = 0 \/ bol = FALSE)

(* One cell, written with the active indent d. *)
LEMMA PutMeets ==
  ASSUME NEW C, Indent \in C, NEW r, r.indent \in Nat,
         NEW acc, acc.sink \in Seq(C),
         NEW here \in Nat \cup {Mid}, Indented(acc.sink, here),
         NEW there \in Nat \cup {Mid}, Meets(there, here, r.indent, acc.bol),
         NEW cell \in C, NEW orig, cell.c = orig.c, orig.c \in {"nl", "ind", "x"},
         orig.c = "x" => cell.lvl = orig.lvl + r.indent,
         Suits(there, orig)
  PROVE  \E now \in Nat \cup {Mid} :
            /\ Indented(Put(acc, cell, r).sink, now)
            /\ Meets(After(there, orig), now, r.indent, Put(acc, cell, r).bol)
<1> DEFINE d == r.indent
           s == acc.sink
           q == Put(acc, cell, r)
<1>1. CASE cell.c = "nl"
  <2>1. q.sink = Append(s, cell) /\ q.bol = TRUE
    BY <1>1 DEF Put
  <2>2. Suits(here, cell)
    <3>1. there \in Nat => there # Mid
      BY DEF Mid
    <3>2. there # Mid => there = 0
      BY <1>1 DEF Suits, Wanted
    <3>3. here # Mid => here = 0
      BY <3>1, <3>2 DEF Meets
    <3> QED BY <1>1, <3>3 DEF Suits, Wanted
  <2>3. Indented(Append(s, cell), After(here, cell))
    BY <2>2, CellGrows
  <2>4. After(here, cell) = 0 /\ After(there, orig) = 0
    BY <1>1 DEF After
  <2>5. Meets(0, 0, d, TRUE)
    BY DEF Meets
  <2> QED BY <2>1, <2>3, <2>4, <2>5
<1>2. CASE cell.c # "nl"
  <2>1. PICK k \in Nat : /\ q.sink = s \o [i \in 1 .. k |-> Indent] \o <<cell>>
                         /\ acc.bol = TRUE => k = d
                         /\ acc.bol = FALSE => k = 0
                         /\ k \in {0, d}
    <3> DEFINE k == IF acc.bol THEN d ELSE 0
    <3>1. [i \in 1 .. 0 |-> Indent] = <<>>
      OBVIOUS
    <3>2. k \in Nat /\ k \in {0, d}
      OBVIOUS
    <3>3. (IF acc.bol THEN [i \in 1 .. d |-> Indent] ELSE <<>>) = [i \in 1 .. k |-> Indent]
      BY <3>1
    <3>4. q.sink = s \o (IF acc.bol THEN [i \in 1 .. d |-> Indent] ELSE <<>>) \o <<cell>>
      BY <1>2 DEF Put
    <3>5. (acc.bol = TRUE => k = d) /\ (acc.bol = FALSE => k = 0)
      OBVIOUS
    <3> HIDE DEF k
    <3>6. q.sink = s \o [i \in 1 .. k |-> Indent] \o <<cell>>
      BY <3>3, <3>4
    <3> QED BY <3>2, <3>5, <3>6
  <2> DEFINE mid == s \o [i \in 1 .. k |-> Indent]
             column == IF here = Mid THEN Mid ELSE here + k
  <2>2. Indented(mid, column)
    BY IndentsGrow
  <2>3. mid \in Seq(C) /\ column \in Nat \cup {Mid}
    <3>1. [i \in 1 .. k |-> Indent] \in Seq(C)
      OBVIOUS
    <3>2. here + k \in Nat \/ here = Mid
      OBVIOUS
    <3> QED BY <3>1, <3>2
  <2>4. q.sink = Append(mid, cell)
    <3> HIDE DEF mid, column
    <3>1. mid \o <<cell>> = Append(mid, cell)
      BY <2>3
    <3> QED BY <2>1, <3>1 DEF mid
  <2>5. q.bol = FALSE
    BY <1>2 DEF Put
  <2>6. here # Mid => column = there + d /\ there \in Nat
    BY <2>1, SMTT(30) DEF Meets
  <2>7. here = Mid => column = Mid
    OBVIOUS
  <2> HIDE DEF mid, column
  <2>8. column # Mid => column = there + d /\ there \in Nat
    BY <2>6, <2>7
  <2>9. there \in Nat => there # Mid
    BY DEF Mid
  <2>10. Suits(column, cell)
    BY <1>2, <2>8, <2>9 DEF Suits, Wanted
  <2>11. Indented(Append(mid, cell), After(column, cell))
    BY <2>2, <2>3, <2>10, CellGrows
  <2>12. After(column, cell) \in Nat \cup {Mid}
    BY <2>3 DEF After
  <2>13. Meets(After(there, orig), After(column, cell), d, FALSE)
    <3>1. CASE orig.c = "ind"
      <4>1. column # Mid => After(column, cell) = there + d + 1 /\ After(there, orig) = there + 1
        BY <2>8, <2>9, <3>1 DEF After
      <4>2. column = Mid => After(column, cell) = Mid
        BY <1>2 DEF After
      <4> QED BY <2>8, <4>1, <4>2 DEF Meets
    <3>2. CASE orig.c # "ind"
      <4>1. After(column, cell) = Mid
        BY <1>2, <3>2 DEF After
      <4> QED BY <4>1 DEF Meets
    <3> QED BY <3>1, <3>2
  <2> QED BY <2>4, <2>5, <2>11, <2>12, <2>13
<1> QED BY <1>1, <1>2

(* Writing a text that is indented as it should be, inside the regions      *)
(* around the place it goes to, leaves the sink so that one can go on.      *)
LEMMA WrittenResumes ==
  ASSUME NEW C, Indent \in C, NEW r, r.indent \in Nat, sinks[r.sink] \in Seq(C),
         NEW text \in Seq(C), NEW u, Whole(u), Shifted(u, text, r.indent),
         Resumable(sinks[r.sink], r.indent, r.bol)
  PROVE  Resumable(Written(text, r).sink, r.indent, Written(text, r).bol)
<1> DEFINE n == Len(text)
           d == r.indent
           base == [sink |-> sinks[r.sink], bol |-> r.bol]
           B == {TRUE, FALSE, r.bol}
           X == [sink : Seq(C), bol : B]
           F(f) == f = [i \in 0 .. n |-> IF i = 0 THEN base ELSE Put(f[i - 1], text[i], r)]
           put == CHOOSE f : F(f)
           step == [p \in (1 .. n) \X X |-> Put(p[2], text[p[1]], r)]
<1>1. n \in Nat /\ \A i \in 1 .. n : text[i] \in C
  OBVIOUS
<1>2. base \in X
  OBVIOUS
<1>3. step \in [(1 .. n) \X X -> X]
  <2> SUFFICES ASSUME NEW i \in 1 .. n, NEW acc \in X PROVE Put(acc, text[i], r) \in X
    OBVIOUS
  <2>1. text[i] \in C /\ {TRUE, FALSE} \subseteq B
    BY <1>1
  <2> HIDE DEF B
  <2> QED BY <2>1, PutFine
<1>4. Written(text, r) = put[n]
  BY DEF Written
<1>0. base.sink = sinks[r.sink] /\ base.bol = r.bol
  OBVIOUS
<1> HIDE DEF n, base, X, step, F
<1>5. PICK g \in [0 .. n -> X] : Steps(g, n, base, step)
  BY <1>1, <1>2, <1>3, StepsExist
<1>6. F(g)
  <2>1. ASSUME NEW i \in 0 .. n, i # 0 PROVE g[i] = Put(g[i - 1], text[i], r)
    <3>1. i \in 1 .. n /\ i - 1 \in 0 .. n
      BY <1>1, <2>1
    <3>2. g[i - 1] \in X
      BY <1>5, <3>1
    <3>3. <<i, g[i - 1]>> \in (1 .. n) \X X
      BY <3>1, <3>2
    <3> QED BY <1>5, <3>1, <3>3 DEF Steps, step
  <2>2. g[0] = base
    BY <1>5 DEF Steps
  <2>3. g = [i \in 0 .. n |-> IF i = 0 THEN base ELSE Put(g[i - 1], text[i], r)]
    BY <1>5, <2>1, <2>2
  <2> QED BY <2>3 DEF F
<1>7. F(put)
  BY <1>6
<1>8. put = [i \in 0 .. n |-> IF i = 0 THEN base ELSE Put(put[i - 1], text[i], r)]
  BY <1>7 DEF F
<1> HIDE DEF put
<1>9. PICK col : /\ Columns(u, col) /\ col[Len(u)] \in {0, Mid}
                 /\ \A i \in 1 .. Len(u) : Suits(col[i - 1], u[i])
  BY DEF Whole, Indented
<1>10. Len(u) = n
  BY DEF Shifted, n
<1>11. /\ col \in [0 .. n -> Nat \cup {Mid}] /\ col[0] = 0
       /\ \A i \in 1 .. n : col[i] = After(col[i - 1], u[i])
  BY <1>9, <1>10 DEF Columns
<1>12. /\ put[0] = base
       /\ \A i \in 1 .. n : put[i] = Put(put[i - 1], text[i], r)
  BY <1>1, <1>8
<1> DEFINE J(i) == /\ put[i].sink \in Seq(C) /\ put[i] \in X
                   /\ \E here \in Nat \cup {Mid} :
                        Indented(put[i].sink, here) /\ Meets(col[i], here, d, put[i].bol)
<1>13. J(0)
  <2>1. put[0].sink \in Seq(C) /\ put[0] \in X
    BY <1>0, <1>2, <1>12
  <2>2. PICK here \in {0, Mid} :
          Indented(base.sink, here) /\ (here = 0 => (d = 0 \/ base.bol = TRUE))
    BY <1>0 DEF Resumable, Mid
  <2>3. Meets(0, here, d, base.bol)
    BY <2>2 DEF Meets
  <2>4. here \in Nat \cup {Mid}
    OBVIOUS
  <2>5. put[0] = base /\ col[0] = 0
    BY <1>11, <1>12
  <2> QED BY <2>1, <2>2, <2>3, <2>4, <2>5
<1>14. ASSUME NEW i \in 1 .. n, J(i - 1) PROVE J(i)
  <2>1. i - 1 \in 0 .. n /\ i \in 0 .. n
    BY <1>1
  <2>2. PICK here \in Nat \cup {Mid} : Indented(put[i - 1].sink, here)
                                       /\ Meets(col[i - 1], here, d, put[i - 1].bol)
    BY <1>14
  <2>3. put[i - 1].sink \in Seq(C) /\ put[i - 1] \in X
    BY <1>14
  <2>4. text[i] \in C
    BY <1>1
  <2>5. /\ text[i].c = u[i].c /\ u[i].c \in {"nl", "ind", "x"}
        /\ u[i].c = "x" => text[i].lvl = u[i].lvl + d
    BY <1>10 DEF Shifted
  <2>6. Suits(col[i - 1], u[i]) /\ col[i - 1] \in Nat \cup {Mid}
    BY <1>9, <1>10, <1>11, <2>1
  <2> DEFINE q == Put(put[i - 1], text[i], r)
  <2>7. PICK now \in Nat \cup {Mid} :
          Indented(q.sink, now) /\ Meets(After(col[i - 1], u[i]), now, d, q.bol)
    BY <2>2, <2>3, <2>4, <2>5, <2>6, PutMeets
  <2>8. q \in X
    <3>1. {TRUE, FALSE} \subseteq B
      OBVIOUS
    <3> HIDE DEF B
    <3>2. PICK acc \in [sink : Seq(C), bol : B] : acc = put[i - 1]
      BY <2>3 DEF X
    <3>3. Put(acc, text[i], r) \in [sink : Seq(C), bol : B]
      BY <2>4, <3>1, PutFine
    <3> QED BY <3>2, <3>3 DEF X
  <2>9. q.sink \in Seq(C)
    BY <2>8 DEF X
  <2>10. put[i] = q /\ col[i] = After(col[i - 1], u[i])
    BY <1>11, <1>12
  <2> HIDE DEF q
  <2> QED BY <2>7, <2>8, <2>9, <2>10
<1> DEFINE good == {i \in 0 .. n : J(i)}
           id == [i \in 0 .. n |-> i]
<1>15. \A i \in 0 .. n : id[i] = i
  OBVIOUS
<1> HIDE DEF J
<1>16. id[0] \in good
  BY <1>1, <1>13, <1>15
<1>17. ASSUME NEW i \in 1 .. n, id[i - 1] \in good PROVE id[i] \in good
  <2>1. i \in 0 .. n /\ i - 1 \in 0 .. n
    BY <1>1
  <2> QED BY <1>14, <1>15, <1>17, <2>1
<1> HIDE DEF good, id
<1>18. \A i \in 0 .. n : id[i] \in good
  BY <1>1, <1>16, <1>17, StepsStay
<1>19. J(n)
  BY <1>1, <1>15, <1>18 DEF good
<1>20. PICK here \in Nat \cup {Mid} : Indented(put[n].sink, here) /\ Meets(col[n], here, d, put[n].bol)
  BY <1>19 DEF J
<1>21. col[n] \in {0, Mid}
  BY <1>9, <1>10
<1>22. here # Mid => here = 0 /\ (d = 0 \/ put[n].bol = TRUE)
  BY <1>20, <1>21 DEF Meets, Mid
<1>23. Resumable(put[n].sink, d, put[n].bol)
  BY <1>20, <1>22 DEF Resumable
<1> QED BY <1>4, <1>23

LEMMA WrittenNothing ==
  ASSUME NEW r
  PROVE  Written(<<>>, r) = [sink |-> sinks[r.sink], bol |-> r.bol]
<1> DEFINE base == [sink |-> sinks[r.sink], bol |-> r.bol]
           F(f) == f = [i \in 0 .. 0 |-> IF i = 0 THEN base ELSE Put(f[i - 1], <<>>[i], r)]
           put == CHOOSE f : F(f)
           g == [i \in 0 .. 0 |-> base]
<1>1. Written(<<>>, r) = put[0]
  BY DEF Written
<1> HIDE DEF base
<1>2. F(g)
  <2>1. \A i \in 0 .. 0 : i = 0
    OBVIOUS
  <2>2. [i \in 0 .. 0 |-> IF i = 0 THEN base ELSE Put(g[i - 1], <<>>[i], r)] = [i \in 0 .. 0 |-> base]
    BY <2>1
  <2> QED BY <2>2
<1> HIDE DEF g
<1>3. F(put)
  BY <1>2
<1> HIDE DEF put
<1>4. put[0] = base
  BY <1>3
<1> QED BY <1>1, <1>4 DEF base

(* The regions around the j-th position of a stack, in its sink.            *)
TabsAt(st, j) ==
  {i \in 1 .. j : st[i].kind = "tab" /\ \A k \in i + 1 .. j : st[k].kind \notin Captures}
LevelsAt(st, j) == Cardinality(TabsAt(st, j))

LEMMA LevelsAgree ==
  ASSUME NEW st, NEW other, NEW j \in Nat, \A i \in 1 .. j : other[i].kind = st[i].kind
  PROVE  LevelsAt(other, j) = LevelsAt(st, j)
<1>1. TabsAt(other, j) = TabsAt(st, j)
  BY DEF TabsAt
<1> QED BY <1>1 DEF LevelsAt

LEMMA LevelsStep ==
  ASSUME NEW st, NEW j \in Nat
  PROVE  /\ LevelsAt(st, j) \in Nat
         /\ LevelsAt(st, 0) = 0
         /\ st[j + 1].kind = "tab" => LevelsAt(st, j + 1) = LevelsAt(st, j) + 1
         /\ st[j + 1].kind \in Captures => LevelsAt(st, j + 1) = 0
         /\ st[j + 1].kind \notin Captures \cup {"tab"} => LevelsAt(st, j + 1) = LevelsAt(st, j)
<1>1. \A i \in 1 .. j + 1 : i \in 1 .. j \/ i = j + 1
  OBVIOUS
<1>2. IsFiniteSet(TabsAt(st, j)) /\ j + 1 \notin TabsAt(st, j)
  <2>1. TabsAt(st, j) \subseteq 1 .. j
    BY DEF TabsAt
  <2>2. IsFiniteSet(1 .. j)
    BY FS_Interval
  <2> QED BY <2>1, <2>2, FS_Subset
<1>3. LevelsAt(st, j) \in Nat
  BY <1>2, FS_CardinalityType DEF LevelsAt
<1>4. ASSUME st[j + 1].kind \notin Captures
      PROVE  TabsAt(st, j + 1) = TabsAt(st, j) \cup (IF st[j + 1].kind = "tab" THEN {j + 1} ELSE {})
  <2>1. ASSUME NEW i \in 1 .. j
        PROVE  (\A k \in i + 1 .. j : st[k].kind \notin Captures)
                 <=> (\A k \in i + 1 .. j + 1 : st[k].kind \notin Captures)
    <3>1. \A k \in i + 1 .. j + 1 : k \in i + 1 .. j \/ k = j + 1
      OBVIOUS
    <3>2. \A k \in i + 1 .. j : k \in i + 1 .. j + 1
      OBVIOUS
    <3> QED BY <1>4, <3>1, <3>2
  <2>2. \A i \in 1 .. j : i \in TabsAt(st, j + 1) <=> i \in TabsAt(st, j)
    BY <2>1 DEF TabsAt
  <2>3. j + 1 \in TabsAt(st, j + 1) <=> st[j + 1].kind = "tab"
    <3>1. \A k \in (j + 1) + 1 .. j + 1 : FALSE
      OBVIOUS
    <3> QED BY <3>1 DEF TabsAt
  <2>4. TabsAt(st, j + 1) \subseteq 1 .. j + 1 /\ TabsAt(st, j) \subseteq 1 .. j
    BY DEF TabsAt
  <2> QED BY <1>1, <1>2, <2>2, <2>3, <2>4
<1>5. ASSUME st[j + 1].kind = "tab" PROVE LevelsAt(st, j + 1) = LevelsAt(st, j) + 1
  <2>1. st[j + 1].kind \notin Captures
    BY <1>5 DEF Captures
  <2>2. TabsAt(st, j + 1) = TabsAt(st, j) \cup {j + 1}
    BY <1>4, <1>5, <2>1
  <2> QED BY <1>2, <2>2, FS_AddElement DEF LevelsAt
<1>6. ASSUME st[j + 1].kind \in Captures PROVE LevelsAt(st, j + 1) = 0
  <2>1. ASSUME NEW i \in TabsAt(st, j + 1) PROVE FALSE
    <3>1. i \in 1 .. j + 1 /\ st[i].kind = "tab" /\ \A k \in i + 1 .. j + 1 : st[k].kind \notin Captures
      BY <2>1 DEF TabsAt
    <3>2. i # j + 1
      BY <1>6, <3>1 DEF Captures
    <3>3. j + 1 \in i + 1 .. j + 1
      BY <3>1, <3>2
    <3> QED BY <1>6, <3>1, <3>3
  <2>2. TabsAt(st, j + 1) = {}
    BY <2>1
  <2> QED BY <2>2, FS_EmptySet DEF LevelsAt
<1>7. ASSUME st[j + 1].kind \notin Captures \cup {"tab"} PROVE LevelsAt(st, j + 1) = LevelsAt(st, j)
  <2>1. TabsAt(st, j + 1) = TabsAt(st, j)
    BY <1>4, <1>7
  <2> QED BY <2>1 DEF LevelsAt
<1>8. LevelsAt(st, 0) = 0
  <2>1. TabsAt(st, 0) = {}
    BY DEF TabsAt
  <2> QED BY <2>1, FS_EmptySet DEF LevelsAt
<1> QED BY <1>3, <1>5, <1>6, <1>7, <1>8

LEMMA MovedShifts ==
  ASSUME NEW C, \A cell \in C : Fine(cell), NEW st, NEW text \in Seq(C)
  PROVE  Shifted(text, Moved(text, st), Levels(st))
<1> DEFINE t == Moved(text, st)
<1>1. Len(text) \in Nat /\ DOMAIN text = 1 .. Len(text) /\ \A i \in DOMAIN text : text[i] \in C
  OBVIOUS
<1>2. t = [i \in 1 .. Len(text) |-> IF text[i].c = "x" THEN MoveCell(text[i], st) ELSE text[i]]
  BY <1>1 DEF Moved, MapText, MoveCell
<1> HIDE DEF t
<1>3. Len(t) = Len(text)
  BY <1>1, <1>2
<1>4. ASSUME NEW i \in 1 .. Len(text)
      PROVE  /\ t[i].c = text[i].c /\ text[i].c \in {"nl", "ind", "x"}
             /\ text[i].c = "x" => t[i].lvl = text[i].lvl + Levels(st)
  <2>1. Fine(text[i])
    BY <1>1
  <2>2. t[i] = IF text[i].c = "x" THEN MoveCell(text[i], st) ELSE text[i]
    BY <1>2
  <2>3. CASE text[i].c = "x"
    <3>1. DOMAIN text[i] = {"c", "escaped", "under", "lvl"}
      BY <2>1, <2>3 DEF Fine
    <3>2. /\ MoveCell(text[i], st).c = text[i].c
          /\ MoveCell(text[i], st).lvl = text[i].lvl + Levels(st)
      BY <3>1 DEF MoveCell
    <3> QED BY <2>2, <2>3, <3>2
  <2>4. CASE text[i].c # "x"
    BY <2>1, <2>2, <2>4 DEF Fine
  <2> QED BY <2>3, <2>4
<1> QED BY <1>3, <1>4 DEF Shifted, t

-----------------------------------------------------------------------------
(* The state *)

(* While no region met one of the irregular cases: the indent is the number *)
(* of regions around in the sink, now and when any construct ends;          *)
Leveled(st, r) == \A j \in 0 .. Len(st) : At(st, r, j).indent = LevelsAt(st, j)

(* the text before a construct inside a region can be gone on with, once    *)
(* the construct ends and if it puts the line-start flag back;              *)
Waits(a, ss) ==
  a.saved.indent > 0 =>
    /\ a.kind = "tab" => a.saved.bol = TRUE
    /\ a.kind \in Captures =>
         "bol" \in Keeps(a.kind) /\ Resumable(ss[a.saved.sink], a.saved.indent, a.saved.bol)
    /\ a.kind # "embed"

(* and every text is indented as it should be.                              *)
Lined(st, r, ss, ks) ==
  /\ Leveled(st, r)
  /\ \A i \in 1 .. Len(st) : Waits(st[i], ss)
  /\ \A k \in 1 .. Len(ss) : Whole(ss[k])
  /\ \A t \in Templates : Whole(ks[t].text)
  /\ Resumable(ss[Len(ss)], r.indent, r.bol)

LineInvariant == ~irregular => Lined(stack, regs, sinks, kept)

LEMMA ResumableIsWhole ==
  ASSUME NEW s, NEW indent, NEW bol, Resumable(s, indent, bol)
  PROVE  Whole(s)
BY DEF Resumable, Whole

LEMMA WholeResumes ==
  ASSUME NEW s, NEW indent, NEW bol, Whole(s), indent = 0 \/ bol = TRUE
  PROVE  Resumable(s, indent, bol)
BY DEF Resumable, Whole

(* Opening a construct. *)
LEMMA LinedPush ==
  ASSUME NEW st, NEW r, NEW ss, NEW ks, NEW T, ss \in Seq(T), IInv(st, r), Sunk(st, r, Len(ss)),
         Lined(st, r, ss, ks),
         NEW kind, NEW frame, NEW q, q.sink = r.sink + Sinks(kind),
         kind = "tab" => q.indent = r.indent + 1 /\ q.bol = TRUE,
         kind \in Captures => q.indent = 0,
         kind \notin Captures \cup {"tab"} => q.indent = r.indent,
         kind \notin Captures => q.indent = 0 \/ q.bol = TRUE \/ (q.indent = r.indent /\ q.bol = r.bol),
         r.indent > 0 => /\ kind = "tab" => r.bol = TRUE
                         /\ kind \in Captures => "bol" \in Keeps(kind)
                         /\ kind # "embed"
  PROVE  Lined(Append(st, [kind |-> kind, saved |-> r, frame |-> frame]), q,
               IF q.sink > Len(ss) THEN Append(ss, <<>>) ELSE ss, ks)
<1> DEFINE a == [kind |-> kind, saved |-> r, frame |-> frame]
<1>0. a.kind = kind /\ a.saved = r
  OBVIOUS
<1> HIDE DEF a
<1> DEFINE more == Append(st, a)
           ns == IF q.sink > Len(ss) THEN Append(ss, <<>>) ELSE ss
<1>1. PICK S : st \in Seq(S)
  BY DEF IInv, Shaped
<1>2. PICK m \in Nat : m = Len(st)
  BY <1>1
<1>3. /\ more \in Seq(S \cup {a}) /\ Len(more) = m + 1
      /\ \A i \in 1 .. m : more[i] = st[i]
      /\ more[m + 1] = a
  <2>1. st \in Seq(S \cup {a})
    BY <1>1
  <2> QED BY <1>2, <2>1
<1> HIDE DEF more
<1>4. /\ At(more, q, m + 1) = q
      /\ \A j \in 0 .. m : At(more, q, j) = At(st, r, j)
      /\ At(st, r, m) = r
  BY <1>0, <1>2, <1>3 DEF At
<1>5. /\ r.sink = Len(ss) /\ r.sink \in Nat \ {0}
      /\ Sinks(kind) \in {0, 1} /\ (Sinks(kind) = 1 <=> kind \in Captures)
  BY <1>2, <1>4 DEF Sinks, Sunk
<1>6. /\ Len(ns) = q.sink /\ \A k \in 1 .. Len(ss) : ns[k] = ss[k]
      /\ kind \in Captures => q.sink = Len(ss) + 1 /\ ns[q.sink] = <<>>
      /\ kind \notin Captures => ns = ss /\ q.sink = Len(ss)
  <2>1. CASE kind \in Captures
    <3>1. q.sink = Len(ss) + 1 /\ q.sink > Len(ss)
      BY <1>5, <2>1
    <3>2. ns = Append(ss, <<>>)
      BY <3>1
    <3>3. ss \in Seq(T \cup {<<>>})
      OBVIOUS
    <3> QED BY <2>1, <3>1, <3>2, <3>3
  <2>2. CASE kind \notin Captures
    BY <1>5, <2>2
  <2> QED BY <2>1, <2>2
<1> HIDE DEF ns
<1>7. Leveled(more, q)
  <2>1. \A j \in 0 .. m : LevelsAt(more, j) = LevelsAt(st, j)
    <3> SUFFICES ASSUME NEW j \in 0 .. m PROVE LevelsAt(more, j) = LevelsAt(st, j)
      OBVIOUS
    <3>1. \A i \in 1 .. j : more[i].kind = st[i].kind
      BY <1>3
    <3> QED BY <3>1, LevelsAgree
  <2>2. r.indent = LevelsAt(more, m)
    BY <1>2, <1>4, <2>1 DEF Lined, Leveled
  <2>3. q.indent = LevelsAt(more, m + 1)
    BY <1>0, <1>3, <2>2, LevelsStep
  <2>4. \A j \in 0 .. m : At(more, q, j).indent = LevelsAt(more, j)
    BY <1>2, <1>4, <2>1 DEF Lined, Leveled
  <2>5. \A j \in 0 .. m + 1 : j \in 0 .. m \/ j = m + 1
    OBVIOUS
  <2> QED BY <1>3, <1>4, <2>3, <2>4, <2>5 DEF Leveled
<1>8. ASSUME NEW i \in 1 .. m + 1 PROVE Waits(more[i], ns)
  <2>1. CASE i \in 1 .. m
    <3>1. st[i].saved.sink \in 1 .. Len(ss)
      <4>1. At(st, r, i - 1) = st[i].saved /\ i - 1 \in 0 .. m
        BY <1>2, <2>1 DEF At
      <4>2. At(st, r, i - 1).sink \in Nat \ {0} /\ At(st, r, i - 1).sink <= At(st, r, m).sink
        BY <1>2, <4>1 DEF Sunk
      <4> QED BY <1>4, <1>5, <4>1, <4>2
    <3>2. Waits(st[i], ss) /\ more[i] = st[i]
      BY <1>2, <1>3, <2>1 DEF Lined
    <3>3. ns[st[i].saved.sink] = ss[st[i].saved.sink]
      BY <1>6, <3>1
    <3> QED BY <3>2, <3>3 DEF Waits
  <2>2. CASE i = m + 1
    <3>1. more[i] = a
      BY <1>3, <2>2
    <3>2. Resumable(ns[r.sink], r.indent, r.bol)
      <4>1. ns[r.sink] = ss[Len(ss)]
        BY <1>5, <1>6
      <4> QED BY <4>1 DEF Lined
    <3> QED BY <1>0, <3>1, <3>2 DEF Waits
  <2> QED BY <2>1, <2>2
<1>9. Resumable(ns[Len(ns)], q.indent, q.bol)
  <2>1. CASE kind \in Captures
    BY <1>6, <2>1, EmptyIsWhole DEF Resumable
  <2>2. CASE kind \notin Captures
    <3>1. ns[Len(ns)] = ss[Len(ss)] /\ Resumable(ss[Len(ss)], r.indent, r.bol)
      BY <1>6, <2>2 DEF Lined
    <3>2. Whole(ss[Len(ss)])
      BY <3>1, ResumableIsWhole
    <3>3. CASE q.indent = 0 \/ q.bol = TRUE
      BY <3>1, <3>2, <3>3, WholeResumes
    <3>4. CASE q.indent = r.indent /\ q.bol = r.bol
      BY <3>1, <3>4
    <3> QED BY <2>2, <3>3, <3>4
  <2> QED BY <2>1, <2>2
<1>10. ASSUME NEW k \in 1 .. Len(ns) PROVE Whole(ns[k])
  <2>1. CASE k \in 1 .. Len(ss)
    BY <1>6, <2>1 DEF Lined
  <2>2. CASE k \notin 1 .. Len(ss)
    <3>1. kind \in Captures /\ k = q.sink
      BY <1>5, <1>6, <2>2
    <3> QED BY <1>6, <3>1, EmptyIsWhole DEF Whole
  <2> QED BY <2>1, <2>2
<1>11. Lined(more, q, ns, ks)
  BY <1>3, <1>7, <1>8, <1>9, <1>10 DEF Lined
<1> QED BY <1>11 DEF more, a, ns

(* Writing to the sink of the constructs that stay, the first p - 1, after  *)
(* leaving the others, if there are any.                                    *)
LEMMA LinedBack ==
  ASSUME NEW st, NEW r, NEW ss, NEW ks, IInv(st, r), Sunk(st, r, Len(ss)), Lined(st, r, ss, ks),
         NEW p \in 1 .. Len(st) + 1, NEW q,
         q.sink = At(st, r, p - 1).sink, q.indent = At(st, r, p - 1).indent,
         NEW ns, Len(ns) = q.sink, \A k \in 1 .. q.sink - 1 : ns[k] = ss[k],
         Resumable(ns[q.sink], q.indent, q.bol),
         NEW nk, \A t \in Templates : Whole(nk[t].text)
  PROVE  Lined(SubSeq(st, 1, p - 1), q, ns, nk)
<1> DEFINE rest == SubSeq(st, 1, p - 1)
<1>1. PICK S : st \in Seq(S)
  BY DEF IInv, Shaped
<1>2. /\ Len(st) \in Nat /\ p \in Nat /\ p - 1 \in 0 .. Len(st)
      /\ rest \in Seq(S) /\ Len(rest) = p - 1
      /\ \A i \in 1 .. p - 1 : rest[i] = st[i]
  BY <1>1
<1> HIDE DEF rest
<1>3. \A j \in 0 .. p - 1 : At(rest, q, j).indent = At(st, r, j).indent
  BY <1>2 DEF At
<1>4. Leveled(rest, q)
  <2> SUFFICES ASSUME NEW j \in 0 .. p - 1 PROVE At(rest, q, j).indent = LevelsAt(rest, j)
    BY <1>2 DEF Leveled
  <2>1. \A i \in 1 .. j : rest[i].kind = st[i].kind
    BY <1>2
  <2>2. LevelsAt(rest, j) = LevelsAt(st, j)
    BY <2>1, LevelsAgree
  <2>3. At(st, r, j).indent = LevelsAt(st, j)
    BY <1>2 DEF Lined, Leveled
  <2> QED BY <1>3, <2>2, <2>3
<1>5. ASSUME NEW i \in 1 .. p - 1 PROVE Waits(rest[i], ns)
  <2>1. i \in 1 .. Len(st) /\ i \in 0 .. Len(st) /\ i - 1 \in 0 .. Len(st) /\ i - 1 # Len(st)
    BY <1>2
  <2>2. Waits(st[i], ss) /\ rest[i] = st[i]
    BY <1>2, <2>1 DEF Lined
  <2>3. CASE st[i].kind \in Captures
    <3>1. At(st, r, i).sink = st[i].saved.sink + 1
      BY <2>1, <2>3 DEF Sunk, Sinks
    <3>2. At(st, r, i).sink <= q.sink /\ At(st, r, i).sink \in Nat /\ q.sink \in Nat
      BY <1>2, <2>1 DEF Sunk
    <3>3. st[i].saved.sink \in Nat \ {0}
      <4>1. At(st, r, i - 1) = st[i].saved
        BY <1>2, <2>1 DEF At
      <4> QED BY <2>1, <4>1 DEF Sunk
    <3>4. st[i].saved.sink \in 1 .. q.sink - 1
      BY <3>1, <3>2, <3>3, SMTT(30)
    <3> QED BY <2>2, <3>4 DEF Waits
  <2>4. CASE st[i].kind \notin Captures
    BY <2>2, <2>4 DEF Waits
  <2> QED BY <2>3, <2>4
<1>6. ASSUME NEW k \in 1 .. Len(ns) PROVE Whole(ns[k])
  <2>1. q.sink \in Nat \ {0} /\ q.sink <= r.sink /\ r.sink = Len(ss)
    <3>1. At(st, r, Len(st)) = r
      BY DEF At
    <3> QED BY <1>2, <3>1, SMTT(30) DEF Sunk
  <2>2. CASE k = q.sink
    BY <2>2, ResumableIsWhole
  <2>3. CASE k # q.sink
    <3>1. k \in 1 .. q.sink - 1 /\ k \in 1 .. Len(ss)
      BY <2>1, <2>3
    <3> QED BY <3>1 DEF Lined
  <2> QED BY <2>2, <2>3
<1>7. Lined(rest, q, ns, nk)
  BY <1>2, <1>4, <1>5, <1>6 DEF Lined
<1> QED BY <1>7 DEF rest

(* Entering the body of a macro whose defaults are bound. *)
LEMMA LinedEnter ==
  ASSUME NEW st, NEW r, NEW ss, NEW ks, NEW T, ss \in Seq(T), IInv(st, r), Sunk(st, r, Len(ss)),
         Lined(st, r, ss, ks), st # <<>>, st[Len(st)].kind = "bind",
         NEW q, q.sink = r.sink + 1, q.indent = 0,
         NEW a, a.kind = "macro", a.saved = r
  PROVE  Lined([st EXCEPT ![Len(st)] = a], q, Append(ss, <<>>), ks)
<1> DEFINE body == [st EXCEPT ![Len(st)] = a]
           ns == Append(ss, <<>>)
<1>1. PICK S : st \in Seq(S)
  BY DEF IInv, Shaped
<1>2. PICK m \in Nat \ {0} : m = Len(st)
  BY <1>1
<1>3. /\ body \in Seq(S \cup {a}) /\ Len(body) = m
      /\ \A i \in 1 .. m - 1 : body[i] = st[i]
      /\ body[m] = a
  BY <1>1, <1>2
<1> HIDE DEF body
<1>4. /\ At(body, q, m) = q
      /\ At(body, q, m - 1) = r
      /\ \A j \in 0 .. m - 2 : At(body, q, j) = At(st, r, j)
      /\ At(st, r, m) = r
  BY <1>2, <1>3 DEF At
<1>5. r.sink = Len(ss) /\ r.sink \in Nat \ {0}
  BY <1>2, <1>4 DEF Sunk
<1>6. /\ Len(ns) = Len(ss) + 1 /\ ns[Len(ns)] = <<>>
      /\ \A k \in 1 .. Len(ss) : ns[k] = ss[k]
  <2>1. ss \in Seq(T \cup {<<>>})
    OBVIOUS
  <2> QED BY <2>1
<1> HIDE DEF ns
<1>7. m - 1 \in Nat /\ (m - 1) + 1 = m
  BY <1>2
<1>8. "macro" \in Captures /\ "bind" \notin Captures \cup {"tab"} /\ "bol" \in Keeps("macro")
  BY DEF Captures, Keeps
<1>9. Leveled(body, q)
  <2>1. \A j \in 0 .. m - 1 : LevelsAt(body, j) = LevelsAt(st, j)
    <3> SUFFICES ASSUME NEW j \in 0 .. m - 1 PROVE LevelsAt(body, j) = LevelsAt(st, j)
      OBVIOUS
    <3>1. \A i \in 1 .. j : body[i].kind = st[i].kind
      BY <1>2, <1>3
    <3> QED BY <3>1, LevelsAgree
  <2>2. r.indent = LevelsAt(st, m)
    BY <1>2, <1>4 DEF Lined, Leveled
  <2>3. LevelsAt(st, m) = LevelsAt(st, m - 1)
    <3>1. st[(m - 1) + 1].kind \notin Captures \cup {"tab"}
      BY <1>2, <1>7, <1>8
    <3>2. LevelsAt(st, (m - 1) + 1) = LevelsAt(st, m - 1)
      BY <1>7, <3>1, LevelsStep
    <3> QED BY <1>7, <3>2
  <2>4. LevelsAt(body, m) = 0
    <3>1. body[(m - 1) + 1].kind \in Captures
      BY <1>3, <1>7, <1>8
    <3>2. LevelsAt(body, (m - 1) + 1) = 0
      BY <1>7, <3>1, LevelsStep
    <3> QED BY <1>7, <3>2
  <2>5. ASSUME NEW j \in 0 .. m PROVE At(body, q, j).indent = LevelsAt(body, j)
    <3>1. CASE j = m
      BY <1>4, <2>4, <3>1
    <3>2. CASE j = m - 1
      BY <1>4, <1>7, <2>1, <2>2, <2>3, <3>2
    <3>3. CASE j \in 0 .. m - 2
      <4>1. j \in 0 .. Len(st) /\ j \in 0 .. m - 1
        BY <1>2, <3>3
      <4>2. At(st, r, j).indent = LevelsAt(st, j)
        BY <4>1 DEF Lined, Leveled
      <4> QED BY <1>4, <2>1, <3>3, <4>1, <4>2
    <3> QED BY <1>2, <3>1, <3>2, <3>3
  <2> QED BY <1>3, <2>5 DEF Leveled
<1>10. ASSUME NEW i \in 1 .. m PROVE Waits(body[i], ns)
  <2>1. CASE i \in 1 .. m - 1
    <3>1. st[i].saved.sink \in 1 .. Len(ss)
      <4>1. At(st, r, i - 1) = st[i].saved /\ i - 1 \in 0 .. Len(st) /\ i - 1 <= m
        BY <1>2, <2>1 DEF At
      <4>2. m \in 0 .. Len(st)
        BY <1>2
      <4>3. At(st, r, i - 1).sink \in Nat \ {0} /\ At(st, r, i - 1).sink <= At(st, r, m).sink
        BY <4>1, <4>2 DEF Sunk
      <4> QED BY <1>4, <1>5, <4>1, <4>3
    <3>2. Waits(st[i], ss) /\ body[i] = st[i]
      BY <1>2, <1>3, <2>1 DEF Lined
    <3>3. ns[st[i].saved.sink] = ss[st[i].saved.sink]
      BY <1>6, <3>1
    <3> QED BY <3>2, <3>3 DEF Waits
  <2>2. CASE i = m
    <3>1. body[i] = a
      BY <1>3, <2>2
    <3>2. Resumable(ns[r.sink], r.indent, r.bol)
      <4>1. ns[r.sink] = ss[Len(ss)]
        BY <1>5, <1>6
      <4> QED BY <4>1 DEF Lined
    <3> QED BY <1>8, <3>1, <3>2 DEF Waits
  <2> QED BY <2>1, <2>2
<1>11. Resumable(ns[Len(ns)], q.indent, q.bol)
  BY <1>6, EmptyIsWhole DEF Resumable
<1>12. ASSUME NEW k \in 1 .. Len(ns) PROVE Whole(ns[k])
  <2>1. CASE k \in 1 .. Len(ss)
    BY <1>6, <2>1 DEF Lined
  <2>2. CASE k \notin 1 .. Len(ss)
    <3>1. k = Len(ns)
      BY <1>5, <1>6, <2>2
    <3> QED BY <1>6, <3>1, EmptyIsWhole DEF Whole
  <2> QED BY <2>1, <2>2
<1>13. Lined(body, q, ns, ks)
  BY <1>3, <1>9, <1>10, <1>11, <1>12 DEF Lined
<1> QED BY <1>13 DEF body, ns

-----------------------------------------------------------------------------
(* Leaving constructs *)

(* The kinds of construct, by what they do to the indent and to the sink.   *)
LEMMA KindsKeep ==
  ASSUME NEW kind
  PROVE  /\ "bol" \in Keeps(kind) <=> "indent" \in Keeps(kind)
         /\ "bol" \in Keeps(kind) => kind \in Captures \cup {"tab", "embed"}
         /\ kind \in {"tab", "embed"} => "bol" \in Keeps(kind) /\ kind \notin Captures
<1>1. CASE kind \in {"tab", "escape", "sandbox", "apply", "cache", "macro", "caller", "block",
                     "parent", "blockfn", "blockother", "descent", "recursive", "include", "embed"}
  BY <1>1 DEF Keeps, CallerKeeps, Captures, Fields
<1>2. CASE kind \notin {"tab", "escape", "sandbox", "apply", "cache", "macro", "caller", "block",
                        "parent", "blockfn", "blockother", "descent", "recursive", "include", "embed"}
  BY <1>2 DEF Keeps, Captures
<1> QED BY <1>1, <1>2

(* Constructs that save no line-start flag, inside a region, do not capture *)
(* either: the sink and the indent are those the first of them found.       *)
LEMMA NothingBetween ==
  ASSUME NEW st, NEW r, NEW ss, NEW ks, IInv(st, r), Sunk(st, r, Len(ss)), Lined(st, r, ss, ks),
         NEW p \in 1 .. Len(st), st[p].saved.indent > 0,
         NEW e \in p - 1 .. Len(st), \A k \in p .. e : "bol" \notin Keeps(st[k].kind)
  PROVE  /\ At(st, r, e).sink = st[p].saved.sink
         /\ At(st, r, e).indent = st[p].saved.indent
<1>1. PICK S : st \in Seq(S)
  BY DEF IInv, Shaped
<1>2. Len(st) \in Nat /\ p \in Nat /\ e \in Nat /\ e - (p - 1) \in Nat
  BY <1>1
<1>3. At(st, r, p - 1) = st[p].saved
  BY <1>2 DEF At
<1>4. "indent" \in Steady
  BY DEF Steady, Fields
<1>5. ASSUME NEW k \in p .. e PROVE At(st, r, k).indent = st[p].saved.indent
  <2>1. k \in 1 .. Len(st) /\ k \in p .. Len(st)
    BY <1>2
  <2>2. Unsaved(st, p, k, "indent")
    <3> SUFFICES ASSUME NEW i \in p .. k PROVE "indent" \notin Keeps(st[i].kind)
      BY DEF Unsaved
    <3>1. i \in p .. e
      BY <1>2, <2>1
    <3> QED BY <3>1, KindsKeep
  <2> QED BY <1>4, <2>1, <2>2 DEF IInv, Chained
<1>6. ASSUME NEW k \in p .. e PROVE At(st, r, k).sink = At(st, r, k - 1).sink
  <2>1. k \in 1 .. Len(st) /\ k - 1 \in 0 .. Len(st) /\ k - 1 # Len(st)
    BY <1>2
  <2>2. At(st, r, k - 1) = st[k].saved
    BY <2>1 DEF At
  <2>3. st[k].saved.indent = st[p].saved.indent
    <3>1. CASE k = p
      BY <3>1
    <3>2. CASE k # p
      <4>1. k - 1 \in p .. e
        BY <1>2, <3>2
      <4> QED BY <1>5, <2>2, <4>1
    <3> QED BY <3>1, <3>2
  <2>4. Waits(st[k], ss)
    BY <2>1 DEF Lined
  <2>5. st[k].kind \notin Captures
    BY <2>3, <2>4 DEF Waits
  <2>6. At(st, r, k).sink = st[k].saved.sink + 0
    BY <2>1, <2>5 DEF Sunk, Sinks
  <2>7. st[k].saved.sink \in Nat
    BY <2>1, <2>2 DEF Sunk
  <2> QED BY <2>2, <2>6, <2>7
<1> DEFINE n == e - (p - 1)
           id == [i \in 0 .. n |-> At(st, r, p - 1 + i).sink]
           G == {st[p].saved.sink}
<1>7. \A i \in 0 .. n : id[i] = At(st, r, p - 1 + i).sink
  OBVIOUS
<1>8. 0 \in 0 .. n /\ n \in 0 .. n /\ p - 1 + 0 = p - 1 /\ p - 1 + n = e
  BY <1>2
<1> HIDE DEF id
<1>9. id[0] \in G
  BY <1>3, <1>7, <1>8
<1>10. ASSUME NEW i \in 1 .. n, id[i - 1] \in G PROVE id[i] \in G
  <2>1. i \in 0 .. n /\ i - 1 \in 0 .. n /\ p - 1 + i \in p .. e /\ (p - 1 + i) - 1 = p - 1 + (i - 1)
    BY <1>2
  <2>2. At(st, r, p - 1 + i).sink = At(st, r, (p - 1 + i) - 1).sink
    BY <1>6, <2>1
  <2>3. id[i] = At(st, r, p - 1 + i).sink /\ id[i - 1] = At(st, r, p - 1 + (i - 1)).sink
    BY <1>7, <2>1
  <2>4. id[i] = id[i - 1]
    BY <2>1, <2>2, <2>3
  <2> QED BY <1>10, <2>4
<1>11. n \in Nat
  BY <1>2
<1> HIDE DEF n, G
<1>12. \A i \in 0 .. n : id[i] \in G
  BY <1>9, <1>10, <1>11, StepsStay
<1>13. At(st, r, e).sink = st[p].saved.sink
  <2>1. id[n] \in G /\ id[n] = At(st, r, p - 1 + n).sink
    BY <1>7, <1>8, <1>12
  <2> QED BY <1>8, <2>1 DEF G
<1>14. At(st, r, e).indent = st[p].saved.indent
  <2>1. CASE e = p - 1
    BY <1>3, <2>1
  <2>2. CASE e # p - 1
    <3>1. e \in p .. e
      BY <1>2, <2>2
    <3> QED BY <1>5, <3>1
  <2> QED BY <2>1, <2>2
<1> QED BY <1>13, <1>14

(* Leaving the constructs from p on: one can go on with the text they were  *)
(* opened in, with the line-start flag the outermost of them that saves it  *)
(* puts back.                                                               *)
LEMMA LeavingResumes ==
  ASSUME NEW st, NEW r, NEW ss, NEW ks, IInv(st, r), Sunk(st, r, Len(ss)), Lined(st, r, ss, ks),
         NEW p \in 1 .. Len(st), NEW bol,
         bol = IF Keepers(st, p, "bol") = {} THEN r.bol
               ELSE st[Min(Keepers(st, p, "bol"))].saved.bol
  PROVE  Resumable(ss[st[p].saved.sink], st[p].saved.indent, bol)
<1> DEFINE K == Keepers(st, p, "bol")
           d == st[p].saved.indent
           s == ss[st[p].saved.sink]
<1>1. PICK S : st \in Seq(S)
  BY DEF IInv, Shaped
<1>2. Len(st) \in Nat /\ p \in Nat /\ At(st, r, Len(st)) = r /\ At(st, r, p - 1) = st[p].saved
  BY <1>1 DEF At
<1>3. st[p].saved.sink \in 1 .. Len(ss) /\ d \in Nat
  <2>1. p - 1 \in 0 .. Len(st) /\ Len(st) \in 0 .. Len(st) /\ p - 1 <= Len(st)
    BY <1>2
  <2>2. st[p].saved.sink \in Nat \ {0} /\ st[p].saved.sink <= r.sink /\ Sane(st[p].saved)
    BY <1>2, <2>1 DEF Sunk
  <2>3. r.sink = Len(ss) /\ r.sink \in Nat
    BY <1>2, <2>1 DEF Sunk
  <2> QED BY <2>2, <2>3 DEF Sane
<1>4. Whole(s)
  BY <1>3 DEF Lined
<1>5. CASE d = 0
  BY <1>4, <1>5, WholeResumes
<1>6. CASE d > 0 /\ K = {}
  <2>1. \A k \in p .. Len(st) : "bol" \notin Keeps(st[k].kind)
    BY <1>6 DEF Keepers
  <2>2. Len(st) \in p - 1 .. Len(st)
    BY <1>2
  <2>3. r.sink = st[p].saved.sink /\ r.indent = d
    BY <1>2, <1>6, <2>1, <2>2, NothingBetween
  <2>4. Resumable(ss[Len(ss)], r.indent, r.bol) /\ r.sink = Len(ss)
    BY DEF Lined, Sunk
  <2> QED BY <1>6, <2>3, <2>4
<1>7. CASE d > 0 /\ K # {}
  <2> DEFINE m == Min(K)
  <2>0. K \subseteq p .. Len(st) /\ K = {i \in p .. Len(st) : "bol" \in Keeps(st[i].kind)}
    BY DEF Keepers
  <2>1. m \in K /\ \A k \in K : m <= k
    <3>1. K \subseteq Nat
      BY <1>2, <2>0
    <3> HIDE DEF K
    <3> QED BY <1>7, <3>1, FirstPosition
  <2>2. bol = st[m].saved.bol
    BY <1>7
  <2> HIDE DEF m, K
  <2>3. m \in p .. Len(st) /\ "bol" \in Keeps(st[m].kind)
    BY <2>0, <2>1
  <2>4. m \in 1 .. Len(st) /\ m - 1 \in p - 1 .. Len(st) /\ m - 1 # Len(st)
    BY <1>2, <2>3
  <2>5. ASSUME NEW k \in p .. m - 1 PROVE "bol" \notin Keeps(st[k].kind)
    <3>1. k \in p .. Len(st) /\ ~ (m <= k)
      BY <1>2, <2>3
    <3> QED BY <2>0, <2>1, <3>1
  <2>6. At(st, r, m - 1) = st[m].saved
    BY <1>2, <2>4 DEF At
  <2>7. st[m].saved.sink = st[p].saved.sink /\ st[m].saved.indent = d
    BY <1>7, <2>4, <2>5, <2>6, NothingBetween
  <2>8. Waits(st[m], ss)
    BY <2>4 DEF Lined
  <2>9. st[m].kind \in Captures \cup {"tab", "embed"}
    BY <2>3, KindsKeep
  <2>10. CASE st[m].kind \in Captures
    BY <1>7, <2>2, <2>7, <2>8, <2>10 DEF Waits
  <2>11. CASE st[m].kind = "tab"
    <3>1. bol = TRUE
      BY <1>7, <2>2, <2>7, <2>8, <2>11 DEF Waits
    <3> QED BY <1>4, <3>1, WholeResumes
  <2>12. st[m].kind # "embed"
    BY <1>7, <2>7, <2>8 DEF Waits
  <2> QED BY <2>9, <2>10, <2>11, <2>12
<1> QED BY <1>3, <1>5, <1>6, <1>7

-----------------------------------------------------------------------------
(* The steps *)

LEMMA PushLines ==
  ASSUME IInv(stack, regs), TextInvariant, Lined(stack, regs, sinks, kept),
         NEW kind, NEW q, NEW frame, Push(kind, q, frame),
         q.sink = regs.sink + Sinks(kind),
         kind = "tab" => q.indent = regs.indent + 1 /\ q.bol = TRUE,
         kind \in Captures => q.indent = 0,
         kind \notin Captures \cup {"tab"} => q.indent = regs.indent,
         kind \notin Captures =>
           q.indent = 0 \/ q.bol = TRUE \/ (q.indent = regs.indent /\ q.bol = regs.bol),
         regs.indent > 0 => /\ kind = "tab" => regs.bol = TRUE
                            /\ kind \in Captures => "bol" \in Keeps(kind)
                            /\ kind # "embed"
  PROVE  Lined(stack', regs', sinks', kept')
<1>1. PICK C : sinks \in Seq(Seq(C))
  BY DEF TextInvariant, FineIn
<1>2. /\ stack' = Append(stack, [kind |-> kind, saved |-> regs, frame |-> frame])
      /\ regs' = q /\ kept' = kept
      /\ sinks' = IF q.sink > Len(sinks) THEN Append(sinks, <<>>) ELSE sinks
  BY DEF Push
<1>3. Sunk(stack, regs, Len(sinks))
  BY DEF TextInvariant
<1> QED BY <1>1, <1>2, <1>3, LinedPush

(* A construct that leaves indent and flag alone, and one that captures and *)
(* saves both.                                                              *)
LEMMA PlainLines ==
  ASSUME IInv(stack, regs), TextInvariant, Lined(stack, regs, sinks, kept),
         NEW kind \in {"escape", "sandbox", "recursive", "block", "bind", "defined"},
         NEW q, NEW frame, Push(kind, q, frame),
         q.sink = regs.sink, q.indent = regs.indent, q.bol = regs.bol
  PROVE  Lined(stack', regs', sinks', kept')
<1>1. kind \notin Captures /\ kind \notin Captures \cup {"tab"} /\ kind # "tab" /\ kind # "embed"
  BY DEF Captures
<1>2. regs.sink \in Nat
  BY ActiveSink DEF TextInvariant
<1>3. q.sink = regs.sink + Sinks(kind)
  BY <1>1, <1>2 DEF Sinks
<1> QED BY <1>1, <1>3, PushLines

LEMMA CapturingLines ==
  ASSUME IInv(stack, regs), TextInvariant, Lined(stack, regs, sinks, kept),
         NEW kind \in Captures, regs.indent = 0 \/ "bol" \in Keeps(kind),
         NEW q, NEW frame, Push(kind, q, frame),
         q.sink = regs.sink + 1, q.indent = 0
  PROVE  Lined(stack', regs', sinks', kept')
<1>1. kind # "tab" /\ kind # "embed" /\ ~ (kind \notin Captures \cup {"tab"})
  BY DEF Captures
<1>2. q.sink = regs.sink + Sinks(kind)
  BY DEF Sinks
<1>3. regs.indent > 0 => "bol" \in Keeps(kind)
  OBVIOUS
<1> QED BY <1>1, <1>2, <1>3, PushLines

LEMMA RegionLines ==
  ASSUME IInv(stack, regs), TextInvariant, Lined(stack, regs, sinks, kept), ~irregular',
         \/ OpenTab \/ OpenSandbox \/ OpenApply \/ OpenCache \/ OpenRecursive
         \/ BlockSite \/ AskDefined \/ \E s \in Strategies : OpenEscape(s)
  PROVE  Lined(stack', regs', sinks', kept')
<1>1. PICK C : FineIn(C, sinks, kept)
  BY DEF TextInvariant
<1>2. DOMAIN regs = Fields /\ Sane(regs) /\ regs.sink = Len(sinks) /\ regs.sink \in Nat
  BY <1>1, ActiveSink DEF TextInvariant
<1>3. CASE OpenTab
  <2> DEFINE q == [regs EXCEPT !.indent = @ + 1, !.bol = TRUE]
  <2>1. q.sink = regs.sink /\ q.indent = regs.indent + 1 /\ q.bol = TRUE
    BY <1>2 DEF Fields
  <2>2. Push("tab", q, 0)
    BY <1>3 DEF OpenTab
  <2>3. regs.indent > 0 => regs.bol = TRUE
    BY <1>3 DEF OpenTab, IrregularTab
  <2>4. "tab" \notin Captures /\ Sinks("tab") = 0
    BY DEF Captures, Sinks
  <2>5. q.sink = regs.sink + Sinks("tab")
    BY <1>2, <2>1, <2>4
  <2> HIDE DEF q
  <2> QED BY <2>1, <2>2, <2>3, <2>4, <2>5, PushLines
<1>4. CASE OpenSandbox
  <2> DEFINE q == [regs EXCEPT !.gate = TRUE]
  <2>1. q.sink = regs.sink /\ q.indent = regs.indent /\ q.bol = regs.bol
    BY <1>2 DEF Fields
  <2>2. Push("sandbox", q, 0)
    BY <1>4 DEF OpenSandbox
  <2> HIDE DEF q
  <2> QED BY <2>1, <2>2, PlainLines
<1>5. CASE OpenApply \/ OpenCache
  <2> DEFINE q == Captured(regs)
  <2>1. q.sink = regs.sink + 1 /\ q.indent = 0
    BY <1>2 DEF Captured, Fields
  <2>2. PICK kind \in {"apply", "cache"} : Push(kind, q, 0)
    BY <1>5 DEF OpenApply, OpenCache
  <2>3. kind \in Captures /\ "bol" \in Keeps(kind)
    BY DEF Captures, Keeps
  <2> HIDE DEF q
  <2> QED BY <2>1, <2>2, <2>3, CapturingLines
<1>6. CASE OpenRecursive
  <2> DEFINE q == [regs EXCEPT !.loops = Append(@, regs.text)]
  <2>1. q.sink = regs.sink /\ q.indent = regs.indent /\ q.bol = regs.bol
    BY <1>2 DEF Fields
  <2>2. Push("recursive", q, 0)
    BY <1>6 DEF OpenRecursive
  <2> HIDE DEF q
  <2> QED BY <2>1, <2>2, PlainLines
<1>7. CASE BlockSite
  <2> DEFINE q == [regs EXCEPT !.block = 1, !.text = regs.chain[1]]
  <2>1. q.sink = regs.sink /\ q.indent = regs.indent /\ q.bol = regs.bol
    BY <1>2 DEF Fields
  <2>2. Push("block", q, 0)
    BY <1>7 DEF BlockSite
  <2> HIDE DEF q
  <2> QED BY <2>1, <2>2, PlainLines
<1>8. CASE AskDefined
  BY <1>8, PlainLines DEF AskDefined
<1>9. ASSUME NEW s \in Strategies, OpenEscape(s) PROVE Lined(stack', regs', sinks', kept')
  <2> DEFINE q == [regs EXCEPT !.escape = s]
  <2>1. q.sink = regs.sink /\ q.indent = regs.indent /\ q.bol = regs.bol
    BY <1>2 DEF Fields
  <2>2. Push("escape", q, 0)
    BY <1>9 DEF OpenEscape
  <2> HIDE DEF q
  <2> QED BY <2>1, <2>2, PlainLines
<1> QED BY <1>3, <1>4, <1>5, <1>6, <1>7, <1>8, <1>9

LEMMA BuiltinLines ==
  ASSUME IInv(stack, regs), TextInvariant, Lined(stack, regs, sinks, kept), ~irregular',
         CallCaller \/ CallParent \/ CallBlockFunction \/ CallBlockOfOther \/ Descend
  PROVE  Lined(stack', regs', sinks', kept')
<1>1. PICK C : FineIn(C, sinks, kept)
  BY DEF TextInvariant
<1>2. DOMAIN regs = Fields /\ regs.indent \in Nat /\ regs.sink = Len(sinks)
  BY <1>1, ActiveSink DEF TextInvariant, Sane
<1>3. CASE CallCaller
  <2> DEFINE q == [Captured(Suspended(regs)) EXCEPT !.text = stack[regs.caller].saved.text]
  <2>1. q.sink = regs.sink + 1 /\ q.indent = 0
    BY <1>2 DEF Captured, Suspended, Fields
  <2>2. Push("caller", q, 0)
    BY <1>3 DEF CallCaller
  <2>3. "caller" \in Captures /\ "bol" \in Keeps("caller")
    BY DEF Captures, Keeps, CallerKeeps
  <2> HIDE DEF q
  <2> QED BY <2>1, <2>2, <2>3, CapturingLines
<1>4. CASE CallParent \/ CallBlockFunction \/ CallBlockOfOther \/ Descend
  <2>1. regs.indent = 0
    <3>1. IrregularTab(TRUE)
      BY <1>4 DEF CallParent, CallBlockFunction, CallBlockOfOther, Descend
    <3>2. ~ (regs.indent > 0)
      BY <3>1 DEF IrregularTab
    <3> QED BY <1>2, <3>2
  <2>2. PICK kind \in {"parent", "blockfn", "blockother", "descent"} :
          \E q : Push(kind, q, 0) /\ q.sink = Len(sinks) + 1 /\ q.indent = regs.indent
    <3> USE <1>2 DEF Diverted, Fields
    <3>1. CASE CallParent
      <4> DEFINE q == [Diverted(regs) EXCEPT !.block = @ + 1, !.text = regs.chain[regs.block + 1]]
      <4>1. Push("parent", q, 0)
        BY <3>1 DEF CallParent
      <4>2. q.sink = Len(sinks) + 1 /\ q.indent = regs.indent
        OBVIOUS
      <4> HIDE DEF q
      <4> QED BY <4>1, <4>2
    <3>2. CASE CallBlockFunction
      <4> DEFINE q == [Diverted(regs) EXCEPT !.block = 1, !.text = regs.chain[1]]
      <4>1. Push("blockfn", q, 0)
        BY <3>2 DEF CallBlockFunction
      <4>2. q.sink = Len(sinks) + 1 /\ q.indent = regs.indent
        OBVIOUS
      <4> HIDE DEF q
      <4> QED BY <4>1, <4>2
    <3>3. CASE CallBlockOfOther
      <4> DEFINE q == [Diverted(regs) EXCEPT !.text = "lib"]
      <4>1. Push("blockother", q, 0)
        BY <3>3 DEF CallBlockOfOther
      <4>2. q.sink = Len(sinks) + 1 /\ q.indent = regs.indent
        OBVIOUS
      <4> HIDE DEF q
      <4> QED BY <4>1, <4>2
    <3>4. CASE Descend
      <4> DEFINE q == [Diverted(regs) EXCEPT !.text = Last(regs.loops)]
      <4>1. Push("descent", q, 0)
        BY <3>4 DEF Descend
      <4>2. q.sink = Len(sinks) + 1 /\ q.indent = regs.indent
        OBVIOUS
      <4> HIDE DEF q
      <4> QED BY <4>1, <4>2
    <3> QED BY <1>4, <3>1, <3>2, <3>3, <3>4
  <2>3. PICK q : Push(kind, q, 0) /\ q.sink = Len(sinks) + 1 /\ q.indent = regs.indent
    BY <2>2
  <2>4. kind \in Captures
    BY DEF Captures
  <2> QED BY <1>2, <2>1, <2>3, <2>4, CapturingLines
<1> QED BY <1>3, <1>4

LEMMA CallLines ==
  ASSUME IInv(stack, regs), TextInvariant, Lined(stack, regs, sinks, kept), ~irregular',
         Include \/ Embed \/ CallMacro \/ CallBlock \/ EnterMacro
  PROVE  Lined(stack', regs', sinks', kept')
<1>1. PICK C : FineIn(C, sinks, kept)
  BY DEF TextInvariant
<1>2. DOMAIN regs = Fields /\ regs.indent \in Nat /\ regs.sink = Len(sinks) /\ regs.sink \in Nat
  BY <1>1, ActiveSink DEF TextInvariant, Sane
<1>3. CASE Include
  <2> DEFINE q == Fresh("lib", "lib", <<>>, Len(sinks) + 1, regs.escape, regs.gate)
  <2>1. q.sink = regs.sink + 1 /\ q.indent = 0
    BY <1>2 DEF Fresh
  <2>2. Push("include", q, 0)
    BY <1>3 DEF Include
  <2>3. "include" \in Captures /\ "bol" \in Keeps("include")
    BY DEF Captures, Keeps, Fields
  <2> HIDE DEF q
  <2> QED BY <2>1, <2>2, <2>3, CapturingLines
<1>4. CASE Embed
  <2> DEFINE q == Fresh("lib", "lib", <<regs.text, "lib">>, regs.sink, regs.escape, regs.gate)
  <2>1. q.sink = regs.sink /\ q.indent = 0
    BY DEF Fresh
  <2>2. Push("embed", q, 0)
    BY <1>4 DEF Embed
  <2>3. regs.indent = 0 /\ ~ (regs.indent > 0)
    <3>1. ~ (regs.indent > 0)
      BY <1>4 DEF Embed, IrregularTab
    <3> QED BY <1>2, <3>1
  <2>4. "embed" \notin Captures /\ "embed" # "tab" /\ Sinks("embed") = 0
    BY DEF Captures, Sinks
  <2>5. q.sink = regs.sink + Sinks("embed")
    BY <1>2, <2>1, <2>4
  <2> HIDE DEF q
  <2> QED BY <2>1, <2>2, <2>3, <2>4, <2>5, PushLines
<1>5. CASE CallMacro \/ CallBlock
  <2>1. PICK q, frame : /\ Push("bind", q, frame)
                        /\ q.sink = regs.sink /\ q.indent = regs.indent /\ q.bol = regs.bol
    <3> USE <1>2 DEF Fields
    <3>1. CASE CallMacro
      <4> DEFINE q == Consumed(regs)
      <4>1. Push("bind", q, regs.staged)
        BY <3>1 DEF CallMacro, Invoke
      <4>2. q.sink = regs.sink /\ q.indent = regs.indent /\ q.bol = regs.bol
        BY DEF Consumed
      <4> HIDE DEF q
      <4> QED BY <4>1, <4>2
    <3>2. CASE CallBlock
      <4> DEFINE r == [regs EXCEPT !.staged = Len(stack) + 1]
                 q == Consumed(r)
      <4>1. Push("bind", q, r.staged)
        BY <3>2 DEF CallBlock, Invoke
      <4>2. q.sink = regs.sink /\ q.indent = regs.indent /\ q.bol = regs.bol
        BY DEF Consumed
      <4> HIDE DEF q, r
      <4> QED BY <4>1, <4>2
    <3> QED BY <1>5, <3>1, <3>2
  <2> QED BY <2>1, PlainLines
<1>6. CASE EnterMacro
  <2> DEFINE a == [stack[Len(stack)] EXCEPT !.kind = "macro", !.saved = regs]
             q == Body(regs, stack[Len(stack)].frame)
  <2>1. /\ stack # <<>> /\ stack[Len(stack)].kind = "bind"
        /\ regs' = q /\ stack' = [stack EXCEPT ![Len(stack)] = a]
        /\ sinks' = Append(sinks, <<>>) /\ kept' = kept
    BY <1>6 DEF EnterMacro, Top
  <2>2. q.sink = regs.sink + 1 /\ q.indent = 0
    BY <1>2 DEF Body, Captured, Fields
  <2>3. DOMAIN stack[Len(stack)] = DOMAIN stack[Len(stack)] /\ a.kind = "macro" /\ a.saved = regs
    OBVIOUS
  <2>4. sinks \in Seq(Seq(C)) /\ Sunk(stack, regs, Len(sinks))
    BY <1>1 DEF FineIn, TextInvariant
  <2> HIDE DEF a, q
  <2> QED BY <2>1, <2>2, <2>3, <2>4, LinedEnter
<1> QED BY <1>3, <1>4, <1>5, <1>6

(* Text written to the active sink, or to the sink a construct leaves to:   *)
(* the cells of the state and of the text have one set.                     *)
LEMMA WriteLines ==
  ASSUME NEW C, FineIn(C, sinks, kept), NEW r, r.sink \in 1 .. Len(sinks), r.indent \in Nat,
         NEW text \in Seq(C), NEW u, Whole(u), Shifted(u, text, r.indent),
         Resumable(sinks[r.sink], r.indent, r.bol)
  PROVE  Resumable(Written(text, r).sink, r.indent, Written(text, r).bol)
<1> DEFINE D == C \cup {Indent}
<1>1. C \subseteq D /\ Indent \in D /\ \A cell \in D : Fine(cell)
  <2>1. Fine(Indent)
    BY DEF Fine, Indent
  <2> QED BY <2>1 DEF FineIn
<1> HIDE DEF D
<1>2. FineIn(D, sinks, kept)
  BY <1>1, FineGrows
<1>3. text \in Seq(D)
  BY <1>1
<1>4. sinks[r.sink] \in Seq(D)
  BY <1>2 DEF FineIn
<1> QED BY <1>1, <1>3, <1>4, WrittenResumes

(* Writing on, with the constructs as they are. *)
LEMMA GrowLines ==
  ASSUME IInv(stack, regs), TextInvariant, Lined(stack, regs, sinks, kept),
         NEW C, FineIn(C, sinks, kept), NEW text \in Seq(C),
         NEW u, Whole(u), Shifted(u, text, Levels(stack)),
         stack' = stack, kept' = kept,
         sinks' = [sinks EXCEPT ![regs.sink] = Written(text, regs).sink],
         regs' = [regs EXCEPT !.bol = Written(text, regs).bol]
  PROVE  Lined(stack', regs', sinks', kept')
<1> DEFINE w == Written(text, regs)
<1>1. /\ DOMAIN regs = Fields /\ regs.indent \in Nat
      /\ Len(sinks) \in Nat \ {0} /\ regs.sink = Len(sinks)
  BY ActiveSink DEF TextInvariant, Sane
<1>2. Len(stack) \in Nat /\ SubSeq(stack, 1, Len(stack)) = stack
  <2>1. PICK S : stack \in Seq(S)
    BY DEF IInv, Shaped
  <2> QED BY <2>1
<1>3. At(stack, regs, Len(stack)) = regs
  BY DEF At
<1>4. regs.indent = Levels(stack)
  <2>1. Levels(stack) = LevelsAt(stack, Len(stack))
    BY DEF Levels, LevelsAt, TabsAt
  <2> QED BY <1>2, <1>3, <2>1 DEF Lined, Leveled
<1>5. Resumable(sinks[regs.sink], regs.indent, regs.bol)
  BY <1>1 DEF Lined
<1>6. Resumable(w.sink, regs.indent, w.bol)
  <2>1. Shifted(u, text, regs.indent) /\ regs.sink \in 1 .. Len(sinks)
    BY <1>1, <1>4
  <2> QED BY <1>1, <1>5, <2>1, WriteLines
<1> HIDE DEF w
<1>7. regs'.sink = regs.sink /\ regs'.indent = regs.indent /\ regs'.bol = w.bol
  BY <1>1 DEF Fields, w
<1>8. /\ Len(sinks') = regs'.sink /\ sinks'[regs'.sink] = w.sink
      /\ \A k \in 1 .. regs'.sink - 1 : sinks'[k] = sinks[k]
  <2>1. sinks \in Seq(Seq(C))
    BY DEF FineIn
  <2> QED BY <1>1, <1>7, <2>1 DEF w
<1> DEFINE p == Len(stack) + 1
<1>9. p \in 1 .. Len(stack) + 1 /\ p - 1 = Len(stack)
  BY <1>2
<1>10. \A t \in Templates : Whole(kept'[t].text)
  BY DEF Lined
<1>11. Sunk(stack, regs, Len(sinks))
  BY DEF TextInvariant
<1>12. Resumable(sinks'[regs'.sink], regs'.indent, regs'.bol)
  BY <1>6, <1>7, <1>8
<1>13. regs'.sink = At(stack, regs, p - 1).sink /\ regs'.indent = At(stack, regs, p - 1).indent
  BY <1>3, <1>7, <1>9
<1> HIDE DEF p
<1>14. PICK q, ns, nk : q = regs' /\ ns = sinks' /\ nk = kept'
  OBVIOUS
<1>15. Lined(SubSeq(stack, 1, p - 1), q, ns, nk)
  BY <1>8, <1>9, <1>10, <1>11, <1>12, <1>13, <1>14, LinedBack
<1> QED BY <1>2, <1>9, <1>14, <1>15

LEMMA TextLines ==
  ASSUME IInv(stack, regs), TextInvariant, Lined(stack, regs, sinks, kept), Text
  PROVE  Lined(stack', regs', sinks', kept')
<1> DEFINE cell == Printed(Levels(stack))
           value == [text |-> <<cell>>, safe |-> FALSE]
           shown == [cell EXCEPT !.escaped = Append(@, regs.escape)]
           done == Emitted(value, regs)
<1>1. PICK text \in {<<Newline>>, done} :
        /\ sinks' = [sinks EXCEPT ![regs.sink] = Written(text, regs).sink]
        /\ regs' = [regs EXCEPT !.bol = Written(text, regs).bol]
        /\ stack' = stack /\ kept' = kept
  BY DEF Text
<1>2. PICK C : FineIn(C, sinks, kept)
  BY DEF TextInvariant
<1>3. PICK one : /\ text = <<one>> /\ Fine(one)
                 /\ one.c \in {"nl", "x"} /\ (one.c = "x" => one.lvl = Levels(stack))
  BY <1>1, WritesOne
<1> DEFINE D == C \cup {one}
<1>4. FineIn(D, sinks, kept) /\ text \in Seq(D)
  <2>1. \A e \in D : Fine(e)
    BY <1>2, <1>3 DEF FineIn
  <2>2. FineIn(D, sinks, kept)
    BY <1>2, <2>1, FineGrows
  <2>3. text \in Seq(D)
    BY <1>3
  <2> QED BY <2>2, <2>3
<1> DEFINE bare == [c |-> one.c, lvl |-> 0]
           u == <<bare>>
<1>5. Whole(u)
  <2>1. bare.c = one.c /\ bare.lvl = 0 /\ <<>> \in Seq({bare}) /\ 0 \in Nat \cup {Mid}
    BY EmptySeq
  <2>2. Append(<<>>, bare) = u
    OBVIOUS
  <2> HIDE DEF bare, u
  <2>3. Suits(0, bare)
    BY <2>1 DEF Suits, Wanted
  <2>4. Indented(u, After(0, bare))
    BY <2>1, <2>2, <2>3, EmptyIsWhole, CellGrows
  <2>5. After(0, bare) \in {0, Mid}
    BY <1>3, <2>1 DEF After
  <2> QED BY <2>4, <2>5 DEF Whole
<1>6. Shifted(u, text, Levels(stack))
  <2>1. Levels(stack) \in Nat
    <3>1. Levels(stack) = LevelsAt(stack, Len(stack))
      BY DEF Levels, LevelsAt, TabsAt
    <3>2. Len(stack) \in Nat
      BY DEF IInv, Shaped
    <3> QED BY <3>1, <3>2, LevelsStep
  <2>2. Len(u) = 1 /\ Len(text) = 1 /\ u[1] = bare /\ text[1] = one
    BY <1>3
  <2>3. bare.c = one.c /\ bare.lvl = 0
    OBVIOUS
  <2> HIDE DEF bare, u
  <2> QED BY <1>3, <2>1, <2>2, <2>3 DEF Shifted
<1> HIDE DEF D, u, done
<1> QED BY <1>1, <1>4, <1>5, <1>6, GrowLines

LEMMA CacheHitLines ==
  ASSUME IInv(stack, regs), TextInvariant, Lined(stack, regs, sinks, kept), CacheHit
  PROVE  Lined(stack', regs', sinks', kept')
<1> DEFINE text == kept[regs.root].text
<1>1. /\ sinks' = [sinks EXCEPT ![regs.sink] = Written(Moved(text, stack), regs).sink]
      /\ regs' = [regs EXCEPT !.bol = Written(Moved(text, stack), regs).bol]
      /\ stack' = stack /\ kept' = kept
  BY DEF CacheHit
<1>2. PICK C : FineIn(C, sinks, kept)
  BY DEF TextInvariant
<1>3. regs.root \in Templates
  BY <1>2, ActiveSink DEF TextInvariant, Sane
<1>4. text \in Seq(C) /\ (\A cell \in C : Fine(cell)) /\ Whole(text)
  BY <1>2, <1>3 DEF FineIn, Lined
<1> HIDE DEF text
<1> DEFINE M == MovedCells(C, stack)
<1>5. Moved(text, stack) \in Seq(M) /\ FineIn(M, sinks, kept)
  BY <1>2, <1>4, MovedFine, FineGrows
<1>6. Shifted(text, Moved(text, stack), Levels(stack))
  BY <1>4, MovedShifts
<1> HIDE DEF M
<1> QED BY <1>1, <1>4, <1>5, <1>6, GrowLines

LEMMA CloseLined ==
  ASSUME IInv(stack, regs), TextInvariant, Lined(stack, regs, sinks, kept), Close
  PROVE  Lined(stack', regs', sinks', kept')
<1> DEFINE n == Len(stack)
           rest == SubSeq(stack, 1, n - 1)
           r == Restored(Top, regs)
           text == sinks[Len(sinks)]
           sp == Spliced(Top, text, r, rest)
           w == Written(sp, r)
<1>1. n \in DOMAIN stack /\ Leaving(n)
  BY CloseLeaves
<1>2. /\ regs' = [r EXCEPT !.bol = w.bol]
      /\ sinks' = IF Top.kind \in Captures
                  THEN [SubSeq(sinks, 1, Len(sinks) - 1) EXCEPT ![r.sink] = w.sink]
                  ELSE sinks
      /\ kept' = IF Top.kind = "cache"
                 THEN [kept EXCEPT ![r.root] = [text |-> text, by |-> r.text]]
                 ELSE kept
      /\ stack' = rest
  BY DEF Close
<1>3. /\ regs'.sink \in 1 .. Len(sinks) /\ Sane(regs') /\ Len(sinks) \in Nat
      /\ Len(sinks) = regs'.sink + Sinks(Top.kind)
  BY <1>1, LeaveSinks DEF Top
<1>4. PICK S : stack \in Seq(S)
  BY DEF IInv, Shaped
<1>5. n \in 1 .. Len(stack) /\ n \in Nat /\ n - 1 \in Nat /\ Len(rest) = n - 1
  <2>1. DOMAIN stack = 1 .. n /\ n \in Nat
    BY <1>4
  <2>2. n \in 1 .. n
    BY <1>1, <2>1
  <2>3. Len(rest) = n - 1
    BY <1>4, <2>1, <2>2
  <2> QED BY <2>1, <2>2, <2>3
<1>6. /\ DOMAIN r = Fields /\ r.sink = regs'.sink /\ Same(r, regs')
      /\ r.sink = stack[n].saved.sink /\ r.indent = stack[n].saved.indent
  <2>1. DOMAIN r = Fields
    BY DEF Restored
  <2>2. regs'.sink = stack[n].saved.sink /\ regs'.indent = stack[n].saved.indent
    BY <1>1 DEF Leaving, Steady, Fields
  <2> HIDE DEF r
  <2> QED BY <1>2, <2>1, <2>2 DEF Fields, Same
<1>7. r.bol = IF Keepers(stack, n, "bol") = {} THEN regs.bol
              ELSE stack[Min(Keepers(stack, n, "bol"))].saved.bol
  <2> DEFINE K == Keepers(stack, n, "bol")
  <2>1. r.bol = IF "bol" \in Keeps(stack[n].kind) THEN stack[n].saved.bol ELSE regs.bol
    BY DEF Restored, Fields, Top
  <2>2. K = IF "bol" \in Keeps(stack[n].kind) THEN {n} ELSE {}
    BY <1>5 DEF Keepers
  <2>3. Min({n}) = n
    <3>1. {n} \subseteq Nat /\ {n} # {}
      BY <1>5
    <3> QED BY <3>1, FirstPosition
  <2> HIDE DEF K, n
  <2> QED BY <2>1, <2>2, <2>3 DEF K
<1>8. Sunk(stack, regs, Len(sinks))
  BY DEF TextInvariant
<1> HIDE DEF r
<1>9. Resumable(sinks[r.sink], r.indent, r.bol)
  <2>1. Resumable(sinks[stack[n].saved.sink], stack[n].saved.indent, r.bol)
    BY <1>5, <1>7, <1>8, LeavingResumes
  <2> QED BY <1>6, <2>1
<1>10. PICK C : FineIn(C, sinks, kept)
  BY DEF TextInvariant
<1>11. /\ \A cell \in C : Fine(cell)
       /\ sinks \in Seq(Seq(C)) /\ text \in Seq(C) /\ Whole(text)
  BY <1>3, <1>10 DEF FineIn, Lined
<1>12. Levels(rest) = r.indent
  <2>1. \A i \in 1 .. n - 1 : rest[i].kind = stack[i].kind
    BY <1>4, <1>5
  <2>2. LevelsAt(rest, n - 1) = LevelsAt(stack, n - 1)
    BY <1>5, <2>1, LevelsAgree
  <2>3. At(stack, regs, n - 1) = stack[n].saved /\ n - 1 \in 0 .. Len(stack)
    BY <1>5 DEF At
  <2>4. Levels(rest) = LevelsAt(rest, n - 1)
    <3> HIDE DEF rest
    <3> QED BY <1>5 DEF Levels, LevelsAt, TabsAt
  <2>5. LevelsAt(stack, n - 1) = stack[n].saved.indent
    BY <2>3 DEF Lined, Leveled
  <2> QED BY <1>6, <2>2, <2>4, <2>5
<1> HIDE DEF text
<1>13. sp = Moved(text, rest) \/ sp = <<>>
  BY ResultVerbatim DEF Spliced
<1> DEFINE M == MovedCells(C, rest)
<1>14. sp \in Seq(M) /\ FineIn(M, sinks, kept)
  <2>1. sp \in Seq(M)
    BY <1>11, SplicedFine
  <2>2. C \subseteq M /\ \A cell \in M : Fine(cell)
    BY <1>11, MovedFine
  <2>3. FineIn(M, sinks, kept)
    BY <1>10, <2>2, FineGrows
  <2> QED BY <2>1, <2>3
<1>15. PICK u : Whole(u) /\ Shifted(u, sp, r.indent)
  <2>1. CASE sp = Moved(text, rest)
    <3>1. Shifted(text, Moved(text, rest), Levels(rest))
      BY <1>11, MovedShifts
    <3> QED BY <1>11, <1>12, <2>1, <3>1
  <2>2. CASE sp = <<>>
    <3>1. \A i \in 1 .. Len(<<>>) : FALSE
      OBVIOUS
    <3>2. Shifted(<<>>, <<>>, r.indent)
      BY <3>1 DEF Shifted
    <3>3. Whole(<<>>)
      BY EmptyIsWhole DEF Whole
    <3> QED BY <2>2, <3>2, <3>3
  <2> QED BY <1>13, <2>1, <2>2
<1>16. Top.kind \notin Captures => sp = <<>>
  BY DEF Spliced, Valued, Captures
<1> HIDE DEF M, rest, sp
<1>17. Resumable(w.sink, r.indent, w.bol)
  <2>1. r.indent \in Nat /\ r.sink \in 1 .. Len(sinks)
    BY <1>3, <1>6 DEF Sane, Same
  <2> QED BY <1>9, <1>14, <1>15, <2>1, WriteLines
<1>18. Top.kind \notin Captures => w.sink = sinks[r.sink]
  <2>1. Written(<<>>, r).sink = sinks[r.sink]
    BY WrittenNothing
  <2> QED BY <1>16, <2>1
<1> HIDE DEF w
<1>19. /\ Len(sinks') = regs'.sink /\ sinks'[regs'.sink] = w.sink
       /\ \A k \in 1 .. regs'.sink - 1 : sinks'[k] = sinks[k]
  <2>1. CASE Top.kind \in Captures
    <3>1. Len(sinks) = regs'.sink + 1 /\ regs'.sink \in Nat \ {0}
      BY <1>3, <2>1 DEF Sinks
    <3> DEFINE left == SubSeq(sinks, 1, Len(sinks) - 1)
    <3>2. /\ left \in Seq(Seq(C)) /\ Len(left) = regs'.sink
          /\ \A k \in 1 .. regs'.sink : left[k] = sinks[k]
      BY <1>11, <3>1
    <3>3. sinks' = [left EXCEPT ![regs'.sink] = w.sink]
      BY <1>2, <1>6, <2>1
    <3> HIDE DEF left
    <3>4. PICK m \in Nat \ {0} : m = regs'.sink
      BY <3>1
    <3>5. PICK ns : ns = sinks'
      OBVIOUS
    <3>6. ns = [left EXCEPT ![m] = w.sink] /\ Len(left) = m
      BY <3>2, <3>3, <3>4, <3>5
    <3>7. Len(ns) = m /\ ns[m] = w.sink /\ \A k \in 1 .. m - 1 : ns[k] = left[k]
      BY <3>2, <3>4, <3>6
    <3> QED BY <3>2, <3>4, <3>5, <3>7
  <2>2. CASE Top.kind \notin Captures
    <3>1. sinks' = sinks /\ Len(sinks) = regs'.sink
      BY <1>2, <1>3, <2>2 DEF Sinks
    <3> QED BY <1>6, <1>18, <2>2, <3>1
  <2> QED BY <2>1, <2>2
<1>20. \A t \in Templates : Whole(kept'[t].text)
  <2>1. DOMAIN kept = Templates /\ \A t \in Templates : Whole(kept[t].text)
    BY <1>10 DEF FineIn, Lined
  <2> DEFINE entry == [text |-> text, by |-> r.text]
  <2>2. Whole(entry.text)
    BY <1>11
  <2>3. kept' = kept \/ kept' = [kept EXCEPT ![r.root] = entry]
    BY <1>2
  <2> HIDE DEF entry
  <2> QED BY <2>1, <2>2, <2>3
<1>21. regs'.bol = w.bol /\ regs'.indent = r.indent
  BY <1>2, <1>6 DEF Fields, Same
<1>22. Resumable(sinks'[regs'.sink], regs'.indent, regs'.bol)
  BY <1>17, <1>19, <1>21
<1>23. /\ regs'.sink = At(stack, regs, n - 1).sink
       /\ regs'.indent = At(stack, regs, n - 1).indent
  <2>1. At(stack, regs, n - 1) = stack[n].saved
    BY <1>5 DEF At
  <2> QED BY <1>6, <1>21, <2>1
<1>24. n \in 1 .. Len(stack) + 1
  BY <1>5
<1>25. PICK q, ns, nk : q = regs' /\ ns = sinks' /\ nk = kept'
  OBVIOUS
<1>26. Lined(SubSeq(stack, 1, n - 1), q, ns, nk)
  <2> HIDE DEF n
  <2> QED BY <1>8, <1>19, <1>20, <1>22, <1>23, <1>24, <1>25, LinedBack
<1> QED BY <1>2, <1>25, <1>26 DEF rest

LEMMA FailLines ==
  ASSUME IInv(stack, regs), TextInvariant, Lined(stack, regs, sinks, kept), Fail
  PROVE  Lined(stack', regs', sinks', kept')
<1>1. PICK S : stack \in Seq(S)
  BY DEF IInv, Shaped
<1>2. PICK p \in DOMAIN stack :
        LET keepers(f) == {i \in p .. Len(stack) : f \in Keeps(stack[i].kind)}
            r == [f \in Fields |-> IF keepers(f) = {} THEN regs[f]
                                   ELSE stack[Min(keepers(f))].saved[f]]
        IN /\ regs' = r /\ stack' = SubSeq(stack, 1, p - 1)
           /\ sinks' = SubSeq(sinks, 1, r.sink) /\ kept' = kept
  BY DEF Fail
<1>3. p \in 1 .. Len(stack) /\ p \in Nat /\ Len(stack) \in Nat
  BY <1>1
<1>4. DOMAIN regs' = Fields
  BY <1>2
<1>5. ASSUME NEW f \in Fields
      PROVE  regs'[f] = IF Keepers(stack, p, f) = {} THEN regs[f]
                        ELSE stack[Min(Keepers(stack, p, f))].saved[f]
  BY <1>2 DEF Keepers
<1>6. ASSUME NEW f \in Steady PROVE regs'[f] = stack[p].saved[f]
  <2>1. f \in Fields
    BY DEF Steady
  <2>2. regs'[f] = IF Keepers(stack, p, f) = {} THEN regs[f]
                   ELSE stack[Min(Keepers(stack, p, f))].saved[f]
    BY <1>5, <2>1
  <2> QED BY <1>3, <2>2, UnwindReturns
<1>7. Leaving(p)
  BY <1>2, <1>4, <1>6 DEF Leaving
<1>8. regs'.sink \in 1 .. Len(sinks) /\ Len(sinks) \in Nat
  BY <1>7, LeaveSinks
<1>9. sinks' = SubSeq(sinks, 1, regs'.sink) /\ kept' = kept /\ stack' = SubSeq(stack, 1, p - 1)
  BY <1>2
<1>10. regs'.sink = stack[p].saved.sink /\ regs'.indent = stack[p].saved.indent
  BY <1>6 DEF Steady, Fields
<1>11. regs'.bol = IF Keepers(stack, p, "bol") = {} THEN regs.bol
                   ELSE stack[Min(Keepers(stack, p, "bol"))].saved.bol
  BY <1>5 DEF Fields
<1>12. Sunk(stack, regs, Len(sinks))
  BY DEF TextInvariant
<1>13. PICK q, ns, nk : q = regs' /\ ns = sinks' /\ nk = kept'
  OBVIOUS
<1>14. Resumable(sinks[q.sink], q.indent, q.bol)
  <2>1. q.bol = IF Keepers(stack, p, "bol") = {} THEN regs.bol
                ELSE stack[Min(Keepers(stack, p, "bol"))].saved.bol
    BY <1>11, <1>13
  <2>2. Resumable(sinks[stack[p].saved.sink], stack[p].saved.indent, q.bol)
    BY <1>3, <1>12, <2>1, LeavingResumes
  <2> QED BY <1>10, <1>13, <2>2
<1>15. Len(ns) = q.sink /\ \A k \in 1 .. q.sink : ns[k] = sinks[k]
  <2>1. PICK C : sinks \in Seq(Seq(C))
    BY DEF TextInvariant, FineIn
  <2>2. q.sink \in 1 .. Len(sinks) /\ ns = SubSeq(sinks, 1, q.sink)
    BY <1>8, <1>9, <1>13
  <2> QED BY <1>8, <2>1, <2>2
<1>16. Resumable(ns[q.sink], q.indent, q.bol) /\ \A k \in 1 .. q.sink - 1 : ns[k] = sinks[k]
  <2>1. q.sink \in 1 .. q.sink /\ q.sink \in Nat
    BY <1>8, <1>13
  <2> QED BY <1>14, <1>15, <2>1
<1>17. q.sink = At(stack, regs, p - 1).sink /\ q.indent = At(stack, regs, p - 1).indent
  <2>1. At(stack, regs, p - 1) = stack[p].saved
    BY <1>3 DEF At
  <2> QED BY <1>10, <1>13, <2>1
<1>18. p \in 1 .. Len(stack) + 1
  BY <1>3
<1>19. \A t \in Templates : Whole(nk[t].text)
  BY <1>9, <1>13 DEF Lined
<1>20. Lined(SubSeq(stack, 1, p - 1), q, ns, nk)
  BY <1>12, <1>15, <1>16, <1>17, <1>18, <1>19, LinedBack
<1> QED BY <1>9, <1>13, <1>20

LEMMA InitLines == Init => LineInvariant
<1> SUFFICES ASSUME Init PROVE Lined(stack, regs, sinks, kept)
  BY DEF LineInvariant
<1>1. PICK s \in Strategies :
        regs = Fresh("page", "layout", <<"page", "layout">>, 1, s, FALSE)
  BY DEF Init
<1>2. stack = <<>> /\ Len(stack) = 0 /\ sinks = << <<>> >> /\ Len(sinks) = 1
  BY DEF Init
<1>3. regs.indent = 0
  BY <1>1 DEF Fresh
<1>4. \A j \in 0 .. Len(stack) : j = 0 /\ At(stack, regs, j) = regs
  BY <1>2 DEF At
<1>5. LevelsAt(stack, 0) = 0
  BY LevelsStep
<1>6. Leveled(stack, regs)
  BY <1>3, <1>4, <1>5 DEF Leveled
<1>7. \A i \in 1 .. Len(stack) : FALSE
  BY <1>2
<1>8. \A k \in 1 .. Len(sinks) : sinks[k] = <<>>
  BY <1>2
<1>9. \A t \in Templates : kept[t].text = <<>>
  BY DEF Init, NoEntry
<1>10. Resumable(<<>>, regs.indent, regs.bol) /\ Whole(<<>>)
  BY <1>3, EmptyIsWhole DEF Resumable, Whole
<1> QED BY <1>2, <1>6, <1>7, <1>8, <1>9, <1>10 DEF Lined

LEMMA NextLines == Inv /\ TextInvariant /\ LineInvariant /\ [Next]_vars => LineInvariant'
<1> SUFFICES ASSUME IInv(stack, regs), TextInvariant, LineInvariant, [Next]_vars, ~irregular'
             PROVE  Lined(stack', regs', sinks', kept')
  BY DEF Inv, LineInvariant
<1>1. Lined(stack, regs, sinks, kept)
  <2>1. irregular => irregular'
    <3>1. CASE UNCHANGED vars
      BY <3>1 DEF vars
    <3>2. CASE Next
      BY <3>2 DEF Next, Text, OpenTab, OpenSandbox, OpenApply, OpenCache, OpenRecursive, BlockSite,
                  Include, Embed, OpenEscape, CallMacro, CallBlock, Invoke, EnterMacro, CallCaller,
                  CallParent, CallBlockFunction, CallBlockOfOther, Descend, AskDefined, Close,
                  CacheHit, Fail, IrregularTab
    <3> QED BY <3>1, <3>2
  <2> QED BY <2>1 DEF LineInvariant
<1>2. CASE OpenTab \/ OpenSandbox \/ OpenApply \/ OpenCache \/ OpenRecursive
           \/ BlockSite \/ AskDefined \/ \E s \in Strategies : OpenEscape(s)
  BY <1>1, <1>2, RegionLines
<1>3. CASE CallCaller \/ CallParent \/ CallBlockFunction \/ CallBlockOfOther \/ Descend
  BY <1>1, <1>3, BuiltinLines
<1>4. CASE Include \/ Embed \/ CallMacro \/ CallBlock \/ EnterMacro
  BY <1>1, <1>4, CallLines
<1>5. CASE Text
  BY <1>1, <1>5, TextLines
<1>6. CASE CacheHit
  BY <1>1, <1>6, CacheHitLines
<1>7. CASE Close
  BY <1>1, <1>7, CloseLined
<1>8. CASE Fail
  BY <1>1, <1>8, FailLines
<1>9. CASE UNCHANGED vars
  BY <1>1, <1>9 DEF vars
<1> QED BY <1>2, <1>3, <1>4, <1>5, <1>6, <1>7, <1>8, <1>9 DEF Next

(* Every line of the output that is not blank starts with one indent for    *)
(* each @tab region around it, through whatever macros, includes, cached    *)
(* regions and errors it came, and a blank line with none, but for the      *)
(* cases IrregularTab names (write, writeIndented, captureItems).           *)
THEOREM LinesAreIndented == Spec => []LinesIndentedOnce
<1>1. Inv /\ TextInvariant /\ LineInvariant => LinesIndentedOnce
  <2> SUFFICES ASSUME IInv(stack, regs), TextInvariant, LineInvariant, ~irregular,
                      NEW i \in DOMAIN sinks[1], LineStart(sinks[1], i)
               PROVE  IndentedBy(sinks[1], i)
    BY DEF LinesIndentedOnce, Inv
  <2>1. PICK C : sinks \in Seq(Seq(C))
    BY DEF TextInvariant, FineIn
  <2>2. Len(sinks) \in Nat \ {0}
    BY ActiveSink DEF TextInvariant
  <2>3. sinks[1] \in Seq(C) /\ Whole(sinks[1])
    BY <2>1, <2>2 DEF LineInvariant, Lined
  <2> QED BY <2>3, WholeIsIndented
<1>2. Init => TextInvariant /\ LineInvariant
  BY InitText, InitLines
<1>3. Inv /\ TextInvariant /\ LineInvariant /\ [Next]_vars => TextInvariant' /\ LineInvariant'
  BY NextText, NextLines
<1> QED BY <1>1, <1>2, <1>3, Invariant, PTL DEF Spec
=============================================================================
