---------------------------- MODULE LexerProofs ----------------------------
(***************************************************************************)
(* Proofs about Lexer, for every template: its tokens hold its bytes in    *)
(* the order of the template and lose only layout, and the doors of        *)
(* statements and closes stand where a line starts.                        *)
(***************************************************************************)
EXTENDS Lexer, FoldProofs

-----------------------------------------------------------------------------
(* Positions *)

Token == [k : Kinds \cup Bytes, at : Seq(Nat), trim : CloseTrims \cup {""}]

LEMMA AtBytes ==
  ASSUME code \in Seq(Bytes), NEW i
  PROVE  /\ At(i) # "eof" <=> i \in 1..Len(code)
         /\ At(i) # "eof" => At(i) \in Bytes
         /\ i = Len(code) + 1 => At(i) = "eof"
<1>1. Len(code) \in Nat
  OBVIOUS
<1>2. ASSUME i \in 1..Len(code) PROVE code[i] \in Bytes /\ code[i] # "eof"
  BY <1>2, InputsAssumption
<1> QED BY <1>1, <1>2 DEF At

(* A run of bytes ends before the input does. *)
LEMMA RunEnds ==
  ASSUME code \in Seq(Bytes), NEW i \in 1..(Len(code) + 1), NEW S, "eof" \notin S
  PROVE  /\ RunEnd(i, S) \in i..(Len(code) + 1)
         /\ At(RunEnd(i, S)) \notin S
         /\ \A k \in i..(RunEnd(i, S) - 1) : At(k) \in S
<1> DEFINE R == {j \in i..(Len(code) + 1) : At(j) \notin S}
<1>0. Len(code) \in Nat
  OBVIOUS
<1>1. Len(code) + 1 \in R /\ R \subseteq Nat
  BY <1>0, AtBytes
<1>2. PICK m \in R : \A k \in R : m <= k
  BY <1>1, LeastNatural
<1>3. m \in i..(Len(code) + 1) /\ At(m) \notin S /\ \A k \in i..(m - 1) : At(k) \in S
  BY <1>0, <1>2
<1> QED BY <1>3 DEF RunEnd

(* The run that ends at a place is the only one. *)
LEMMA RunIs ==
  ASSUME code \in Seq(Bytes), NEW i \in 1..(Len(code) + 1), NEW j \in i..(Len(code) + 1), NEW S, "eof" \notin S,
         At(j) \notin S, \A k \in i..(j - 1) : At(k) \in S
  PROVE  RunEnd(i, S) = j
<1>1. PICK e : e = RunEnd(i, S)
  OBVIOUS
<1>2. e \in i..(Len(code) + 1) /\ At(e) \notin S /\ \A k \in i..(e - 1) : At(k) \in S
  BY <1>1, RunEnds
<1>3. e \notin i..(j - 1) /\ j \notin i..(e - 1)
  BY <1>2
<1>4. i \in Nat /\ e \in Nat /\ j \in Nat /\ i <= e /\ i <= j
  BY <1>2
<1> QED BY <1>1, <1>3, <1>4

LEMMA Onwards ==
  ASSUME NEW i \in Nat, NEW n \in Nat, NEW j \in i..n, NEW k \in j..n
  PROVE  k \in i..n
OBVIOUS

LEMMA LineEnds ==
  ASSUME code \in Seq(Bytes), NEW i \in 1..(Len(code) + 1)
  PROVE  /\ LineEnd(i) \in i..(Len(code) + 1)
         /\ At(LineEnd(i)) \in {NL, "eof"}
<1> DEFINE R == {j \in i..(Len(code) + 1) : At(j) \in {NL, "eof"}}
<1>0. Len(code) \in Nat
  OBVIOUS
<1>1. Len(code) + 1 \in R /\ R \subseteq Nat
  BY <1>0, AtBytes
<1>2. PICK m \in R : \A k \in R : m <= k
  BY <1>1, LeastNatural
<1>3. \A k \in i..(m - 1) : At(k) # NL
  BY <1>0, <1>2
<1>4. m \in i..(Len(code) + 1) /\ At(m) \in {NL, "eof"} /\ \A k \in i..(m - 1) : At(k) # NL
  BY <1>2, <1>3
<1> QED BY <1>4 DEF LineEnd

(* What may follow a door: a trim mark, blanks, one newline. *)
LEMMA AfterDoors ==
  ASSUME code \in Seq(Bytes), NEW i \in 1..(Len(code) + 1)
  PROVE  /\ AfterTrim(i) \in i..(Len(code) + 1) /\ TrimAt(i) \in CloseTrims \cup {""}
         /\ AfterNewline(i) \in i..(Len(code) + 1) /\ \A k \in i..(AfterNewline(i) - 1) : At(k) = NL
         /\ AfterTrailing(i) \in i..(Len(code) + 1) /\ \A k \in i..(AfterTrailing(i) - 1) : At(k) = " "
<1>0. Len(code) \in Nat
  OBVIOUS
<1>1. At(i) # "eof" => i + 1 \in i..(Len(code) + 1)
  BY <1>0, AtBytes
<1>2. AfterTrim(i) \in i..(Len(code) + 1) /\ TrimAt(i) \in CloseTrims \cup {""}
  <2>1. "eof" \notin CloseTrims /\ i \in i..(Len(code) + 1)
    BY <1>0 DEF CloseTrims
  <2> QED BY <1>1, <2>1 DEF AfterTrim, TrimAt
<1>3. AfterNewline(i) \in i..(Len(code) + 1) /\ \A k \in i..(AfterNewline(i) - 1) : At(k) = NL
  BY <1>0, <1>1 DEF AfterNewline, NL
<1>4. RunEnd(i, {" "}) \in i..(Len(code) + 1) /\ \A k \in i..(RunEnd(i, {" "}) - 1) : At(k) = " "
  BY RunEnds
<1>5. AfterTrailing(i) \in i..(Len(code) + 1) /\ \A k \in i..(AfterTrailing(i) - 1) : At(k) = " "
  <2>1. i \in i..(Len(code) + 1) /\ \A k \in i..(i - 1) : FALSE
    BY <1>0
  <2> QED BY <1>4, <2>1 DEF AfterTrailing
<1> QED BY <1>2, <1>3, <1>5

Rising(s) == \A n \in 2..Len(s) : s[n - 1] < s[n]

LEMMA FromRange ==
  ASSUME NEW i \in Nat, NEW j \in Nat, i <= j
  PROVE  /\ From(i, j) \in Seq(Nat) /\ Len(From(i, j)) = j - i
         /\ ToSet(From(i, j)) = i..(j - 1) /\ Rising(From(i, j))
         /\ i < j => /\ From(i, j) # <<>> /\ From(i, j)[1] = i
                     /\ From(i, j)[Len(From(i, j))] = j - 1
<1>1. j - i \in Nat /\ DOMAIN From(i, j) = 1..(j - i) /\ \A n \in 1..(j - i) : From(i, j)[n] = i + n - 1
  BY DEF From
<1>2. From(i, j) \in Seq(Nat)
  BY <1>1 DEF From
<1>3. Len(From(i, j)) = j - i
  BY <1>1, <1>2
<1>4. ToSet(From(i, j)) = i..(j - 1)
  <2>1. \A p \in i..(j - 1) : p - i + 1 \in 1..(j - i) /\ p = From(i, j)[p - i + 1]
    BY <1>1
  <2> QED BY <1>1, <2>1 DEF ToSet
<1>5. Rising(From(i, j))
  BY <1>1, <1>3 DEF Rising
<1>6. i < j => /\ From(i, j) # <<>> /\ From(i, j)[1] = i
               /\ From(i, j)[Len(From(i, j))] = j - 1
  <2>1. i < j => j - i \in 1..(j - i) /\ 1 \in 1..(j - i) /\ i + (j - i) - 1 = j - 1 /\ Len(From(i, j)) # 0
    BY <1>3
  <2> QED BY <1>1, <1>3, <2>1
<1> QED BY <1>2, <1>3, <1>4, <1>5, <1>6

-----------------------------------------------------------------------------
(* Lookahead *)

LEMMA BalanceEnds ==
  ASSUME code \in Seq(Bytes), NEW i \in 1..(Len(code) + 1)
  PROVE  Balance(i) \in i..(Len(code) + 1)
<1> DEFINE R == {j \in i..(Len(code) + 1) : At(j) = "eof" \/ Open(i, j) = -1}
<1>1. Len(code) + 1 \in R /\ R \subseteq Nat
  BY AtBytes
<1>2. PICK m \in R : \A k \in R : m <= k
  BY <1>1, LeastNatural
<1> QED BY <1>2 DEF Balance, Min

LEMMA VerbatimCloses ==
  ASSUME code \in Seq(Bytes), NEW i \in 1..(Len(code) + 1)
  PROVE  /\ VerbatimClose(i) \in i..(Len(code) + 1)
         /\ VerbatimClose(i) <= Len(code) => At(VerbatimClose(i)) = "@" /\ At(VerbatimClose(i) + 1) = "}"
<1> DEFINE Closes(j) == At(j) = "eof" \/ (Open(i, j) = 0 /\ At(j) = "@" /\ At(j + 1) = "}")
           R == {j \in i..(Len(code) + 1) : Closes(j)}
<1>0. Len(code) \in Nat /\ Closes(Len(code) + 1)
  <2>1. Len(code) \in Nat
    OBVIOUS
  <2>2. At(Len(code) + 1) = "eof"
    BY AtBytes
  <2> QED BY <2>1, <2>2, Zenon
<1>1. VerbatimClose(i) = Min(R)
  BY DEF VerbatimClose
<1>2. \A j \in 1..Len(code) : Closes(j) => At(j) = "@" /\ At(j + 1) = "}"
  BY AtBytes, Zenon
<1> HIDE DEF Closes
<1>3. Len(code) + 1 \in R /\ R \subseteq Nat
  BY <1>0
<1>4. PICK m \in R : \A k \in R : m <= k
  BY <1>3, LeastNatural
<1>5. VerbatimClose(i) \in R
  BY <1>1, <1>4 DEF Min
<1>6. PICK e \in R : e = VerbatimClose(i)
  BY <1>5
<1>7. e \in i..(Len(code) + 1) /\ (e <= Len(code) => e \in 1..Len(code) /\ Closes(e))
  BY <1>0
<1> QED BY <1>2, <1>6, <1>7

LEMMA FenceLines ==
  ASSUME code \in Seq(Bytes), NEW i \in 1..(Len(code) + 1), NEW fence
  PROVE  FenceLine(i, fence) \in i..(Len(code) + 1)
<1> DEFINE R == {j \in i..(Len(code) + 1) :
                   j = Len(code) + 1 \/ ((j = i \/ At(j - 1) = NL) /\ RightTrimmed(j) = fence)}
<1>1. Len(code) + 1 \in R /\ R \subseteq Nat
  OBVIOUS
<1>2. PICK m \in R : \A k \in R : m <= k
  BY <1>1, LeastNatural
<1> QED BY <1>2 DEF FenceLine, Min

(* The cursor in a string does not go back and stays in the input. *)
LEMMA StringEnds ==
  ASSUME code \in Seq(Bytes), NEW i \in 1..(Len(code) + 1), NEW q, NEW interpolates
  PROVE  StringEnd(i, q, interpolates) \in i..(Len(code) + 1)
<1> DEFINE n == Len(code)
           X == i..(n + 1)
           next == [k \in 1..(n + 1) |->
                      IF At(k) \in {q, "eof"} THEN k ELSE StringByte(k, q, interpolates)]
           F(f) == f = [m \in 0..n |-> IF m = 0 THEN i ELSE next[f[m - 1]]]
           at == CHOOSE f : F(f)
           step == [p \in (1..n) \X X |-> next[p[2]]]
<1>0. n \in Nat /\ n + 1 \in Nat /\ i \in Nat /\ X \subseteq 1..(n + 1) /\ i \in X
  OBVIOUS
<1>1. ASSUME NEW k \in X PROVE next[k] \in X
  <2>1. CASE At(k) \in {q, "eof"}
    BY <1>0, <2>1
  <2>2. CASE At(k) \notin {q, "eof"}
    <3>1. k \in 1..n /\ k + 1 \in X /\ (At(k + 1) # "eof" => k + 2 \in X /\ k + 2 \in 1..(n + 1))
      <4>1. k \in 1..n /\ k \in X
        BY <1>0, <2>2, AtBytes
      <4>2. At(k + 1) # "eof" => k + 1 \in 1..n
        BY AtBytes
      <4> QED BY <1>0, <4>1, <4>2
    <3>2. At(k + 1) = "{" => Balance(k + 2) \in X
      <4> SUFFICES ASSUME At(k + 1) = "{" PROVE Balance(k + 2) \in X
        OBVIOUS
      <4>1. k + 2 \in X /\ k + 2 \in 1..(n + 1)
        BY <3>1
      <4>2. Balance(k + 2) \in (k + 2)..(n + 1)
        BY <4>1, BalanceEnds
      <4> QED BY <1>0, <4>1, <4>2, Onwards
    <3>3. StringByte(k, q, interpolates) \in X
      <4> HIDE DEF X, n
      <4> QED BY <3>1, <3>2 DEF StringByte
    <3> QED BY <1>0, <2>2, <3>3
  <2> QED BY <2>1, <2>2
<1>2. StringEnd(i, q, interpolates) = at[n]
  BY DEF StringEnd
<1> HIDE DEF X, next
<1>3. step \in [(1..n) \X X -> X]
  BY <1>1
<1> HIDE DEF step
<1>4. PICK f \in [0..n -> X] : Steps(f, n, i, step)
  BY <1>0, <1>3, StepsExist
<1>5. F(f)
  <2>1. \A m \in 1..n : m - 1 \in 0..n /\ f[m - 1] \in X
    BY <1>0
  <2>2. ASSUME NEW m \in 0..n PROVE f[m] = IF m = 0 THEN i ELSE next[f[m - 1]]
    <3>1. CASE m = 0
      BY <1>4, <3>1 DEF Steps
    <3>2. CASE m # 0
      <4>1. m \in 1..n /\ <<m, f[m - 1]>> \in (1..n) \X X
        BY <1>0, <2>1, <3>2
      <4>2. f[m] = step[<<m, f[m - 1]>>]
        BY <1>4, <4>1 DEF Steps
      <4> QED BY <3>2, <4>1, <4>2 DEF step
    <3> QED BY <3>1, <3>2
  <2>3. f = [m \in 0..n |-> f[m]]
    OBVIOUS
  <2> QED BY <2>2, <2>3
<1> HIDE DEF F
<1>6. F(at)
  BY <1>5
<1> HIDE DEF at
<1>7. at[0] = i /\ \A m \in 1..n : at[m] = next[at[m - 1]]
  BY <1>0, <1>6 DEF F
<1>8. at[0] \in X /\ \A m \in 1..n : at[m - 1] \in X => at[m] \in X
  BY <1>0, <1>1, <1>7
<1>9. \A m \in 0..n : at[m] \in X
  BY <1>0, <1>8, StepsStay
<1> QED BY <1>0, <1>2, <1>9 DEF X

-----------------------------------------------------------------------------
(* Tokens *)

HeldIn(toks) == UNION {ToSet(toks[i].at) : i \in DOMAIN toks}
Faulted(toks) == \E i \in DOMAIN toks : toks[i].k = "ERROR"

(* Doors and markers are bytes of the template. *)
Marks == {"OPEN_INTERP", "CLOSE_INTERP", "BLOCK_OPEN", "BLOCK_CLOSE"}

(* Tokens of bytes before `p`, each byte in one of them and all in order.   *)
Laid(toks, p) ==
  /\ toks \in Seq(Token)
  /\ \A i \in DOMAIN toks : Rising(toks[i].at) /\ ToSet(toks[i].at) \subseteq 1..(p - 1)
  /\ \A i \in DOMAIN toks : toks[i].k \in Marks => toks[i].at # <<>>
  /\ \A j \in DOMAIN toks : \A i \in 1..(j - 1) : Before(toks[i].at, toks[j].at)

(* What may be in no token while the scan goes on,                          *)
Near(toks, q) == \E i \in DOMAIN toks : Beside(q, toks[i])
Layout(toks, kept, gone, q) == EscapeOf(q, kept) \/ AfterComment(q, gone) \/ Near(toks, q)

(* and no byte before `p` is lost otherwise.                                *)
Spent(toks, s, p, gone) ==
  \A q \in 1..(p - 1) :
    q \in gone \/ q \in HeldIn(toks) \/ q \in ToSet(s) \/ Layout(toks, HeldIn(toks) \cup ToSet(s), gone, q)

(* Before `p` its line has blanks and escapes only.                         *)
LineOpen(p) ==
  \A q \in 1..(p - 1) : (\A r \in q..(p - 1) : At(r) # NL) => InIndent(q)

Ends == {"BLOCK_CLOSE", "VERBATIM"}
EndsIn(toks, kinds) == toks # <<>> /\ toks[Len(toks)].k \in kinds
DoorsIn(toks) ==
  \A i \in DOMAIN toks :
    toks[i].k \in {"STMT", "BLOCK_CLOSE"} /\ ~ (i > 1 /\ toks[i - 1].k \in Ends) => LineOpen(toks[i].at[1])

(* Tokens of all that is before `p`.                                        *)
Good(toks, p, gone) ==
  Laid(toks, p) /\ (~ Faulted(toks) => Spent(toks, <<>>, p, gone)) /\ DoorsIn(toks)

LEMMA LayoutMore ==
  ASSUME NEW toks, NEW kept, NEW gone, NEW q, Layout(toks, kept, gone, q),
         NEW more, Near(toks, q) => Near(more, q), NEW all, kept \subseteq all, NEW past, gone \subseteq past
  PROVE  Layout(more, all, past, q)
<1>1. EscapeOf(q, kept) => EscapeOf(q, all)
  BY DEF EscapeOf
<1>2. AfterComment(q, gone) => AfterComment(q, past)
  BY DEF AfterComment
<1> QED BY <1>1, <1>2 DEF Layout

LEMMA NearAppend ==
  ASSUME NEW toks \in Seq(Token), NEW tok \in Token, NEW q
  PROVE  Near(Append(toks, tok), q) <=> Near(toks, q) \/ Beside(q, tok)
<1> DEFINE more == Append(toks, tok)
<1>1. Len(toks) \in Nat /\ DOMAIN more = 1..(Len(toks) + 1) /\ DOMAIN toks = 1..Len(toks)
  OBVIOUS
<1>2. (\A i \in DOMAIN toks : more[i] = toks[i]) /\ more[Len(toks) + 1] = tok
  OBVIOUS
<1> HIDE DEF more
<1>3. DOMAIN more = DOMAIN toks \cup {Len(toks) + 1}
  BY <1>1
<1> QED BY <1>2, <1>3 DEF Near, more

LEMMA LayoutAppend ==
  ASSUME NEW toks \in Seq(Token), NEW tok \in Token, NEW kept, NEW all, kept \subseteq all,
         NEW gone, NEW past, gone \subseteq past
  PROVE  \A q : Layout(toks, kept, gone, q) => Layout(Append(toks, tok), all, past, q)
<1>1. \A q : Near(toks, q) => Near(Append(toks, tok), q)
  BY NearAppend
<1> QED BY <1>1, LayoutMore

LEMMA FaultedAppend ==
  ASSUME NEW toks \in Seq(Token), NEW tok \in Token, ~ Faulted(Append(toks, tok))
  PROVE  ~ Faulted(toks)
<1>1. \A i \in DOMAIN toks : i \in DOMAIN Append(toks, tok) /\ Append(toks, tok)[i] = toks[i]
  OBVIOUS
<1> QED BY <1>1 DEF Faulted

LEMMA HeldAppend ==
  ASSUME NEW toks \in Seq(Token), NEW tok \in Token
  PROVE  HeldIn(Append(toks, tok)) = HeldIn(toks) \cup ToSet(tok.at)
<1> DEFINE more == Append(toks, tok)
<1>1. Len(toks) \in Nat /\ DOMAIN more = 1..(Len(toks) + 1) /\ DOMAIN toks = 1..Len(toks)
  OBVIOUS
<1>2. (\A i \in DOMAIN toks : more[i] = toks[i]) /\ more[Len(toks) + 1] = tok
  OBVIOUS
<1> HIDE DEF more
<1>3. DOMAIN more = DOMAIN toks \cup {Len(toks) + 1}
  BY <1>1
<1> QED BY <1>2, <1>3 DEF HeldIn

LEMMA LaidMore ==
  ASSUME NEW p \in Nat, NEW q \in Nat, p <= q, NEW toks, Laid(toks, p)
  PROVE  Laid(toks, q)
<1>1. 1..(p - 1) \subseteq 1..(q - 1)
  OBVIOUS
<1> QED BY <1>1 DEF Laid

LEMMA LaidAppend ==
  ASSUME NEW p \in Nat, NEW q \in Nat, p <= q, NEW toks, Laid(toks, p),
         NEW tok \in Token, Rising(tok.at), ToSet(tok.at) \subseteq p..(q - 1), p > 0,
         tok.k \in Marks => tok.at # <<>>
  PROVE  Laid(Append(toks, tok), q)
<1> DEFINE more == Append(toks, tok)
<1>1. PICK n \in Nat : n = Len(toks)
  BY DEF Laid
<1>2. /\ toks \in Seq(Token) /\ more \in Seq(Token)
      /\ DOMAIN more = 1..(n + 1) /\ DOMAIN toks = 1..n
      /\ (\A i \in 1..n : more[i] = toks[i]) /\ more[n + 1] = tok
  BY <1>1 DEF Laid
<1> HIDE DEF more
<1>3. 1..(p - 1) \subseteq 1..(q - 1) /\ p..(q - 1) \subseteq 1..(q - 1)
  OBVIOUS
<1>4. \A i \in 1..n : Rising(more[i].at) /\ ToSet(more[i].at) \subseteq 1..(p - 1)
  BY <1>2 DEF Laid
<1>5. \A i \in DOMAIN more : i # n + 1 => i \in 1..n
  BY <1>2
<1>6. ASSUME NEW j \in DOMAIN more, NEW i \in 1..(j - 1) PROVE Before(more[i].at, more[j].at)
  <2>1. i \in 1..n
    BY <1>2
  <2>2. CASE j = n + 1
    <3>1. \A x \in 1..(p - 1), y \in p..(q - 1) : x < y
      OBVIOUS
    <3> QED BY <1>2, <1>4, <2>1, <2>2, <3>1 DEF Before
  <2>3. CASE j # n + 1
    <3>1. j \in 1..n
      BY <1>5, <2>3
    <3> QED BY <1>2, <2>1, <3>1 DEF Laid
  <2> QED BY <2>2, <2>3
<1>7. \A i \in DOMAIN more : more[i].k \in Marks => more[i].at # <<>>
  BY <1>2, <1>5 DEF Laid
<1>8. \A i \in DOMAIN more : Rising(more[i].at) /\ ToSet(more[i].at) \subseteq 1..(q - 1)
  BY <1>2, <1>3, <1>4, <1>5
<1>9. Laid(more, q)
  BY <1>2, <1>6, <1>7, <1>8 DEF Laid
<1> QED BY <1>9 DEF more

LEMMA DoorsAppend ==
  ASSUME NEW toks \in Seq(Token), DoorsIn(toks), NEW tok \in Token,
         tok.k \in {"STMT", "BLOCK_CLOSE"} =>
           \/ EndsIn(toks, Ends)
           \/ LineOpen(tok.at[1])
  PROVE  DoorsIn(Append(toks, tok))
<1> DEFINE more == Append(toks, tok)
<1>1. PICK n \in Nat : n = Len(toks)
  OBVIOUS
<1>2. /\ DOMAIN more = 1..(n + 1) /\ DOMAIN toks = 1..n
      /\ (\A i \in 1..n : more[i] = toks[i]) /\ more[n + 1] = tok /\ (toks # <<>> => n > 0)
  BY <1>1
<1> USE DEF EndsIn
<1> HIDE DEF more
<1>3. SUFFICES ASSUME NEW i \in DOMAIN more, more[i].k \in {"STMT", "BLOCK_CLOSE"},
                      ~ (i > 1 /\ more[i - 1].k \in Ends)
               PROVE  LineOpen(more[i].at[1])
  BY DEF DoorsIn
<1>4. CASE i = n + 1
  <2>1. ~ (n > 0 /\ toks[n].k \in Ends)
    <3>1. n > 0 => i > 1 /\ i - 1 = n /\ n \in 1..n
      BY <1>4
    <3> QED BY <1>2, <1>3, <3>1
  <2> QED BY <1>1, <1>2, <1>3, <1>4, <2>1
<1>5. CASE i # n + 1
  <2>1. i \in 1..n /\ (i > 1 => i - 1 \in 1..n)
    BY <1>2, <1>5
  <2> QED BY <1>2, <1>3, <2>1 DEF DoorsIn
<1> QED BY <1>4, <1>5

(* A token that goes on, after bytes that may go missing. *)
LEMMA GoodAppend ==
  ASSUME NEW p \in Nat \ {0}, NEW q \in Nat, NEW r \in Nat, p <= q, q <= r,
         NEW toks, NEW gone, Good(toks, p, gone), NEW more, gone \subseteq more,
         NEW tok \in Token, tok.at = From(q, r), tok.k \in Marks => q < r,
         \A k \in p..(q - 1) : k \in more \/ Near(toks, k) \/ Beside(k, tok),
         tok.k \in {"STMT", "BLOCK_CLOSE"} =>
           \/ EndsIn(toks, Ends)
           \/ q < r /\ LineOpen(q)
  PROVE  Good(Append(toks, tok), r, more)
<1>1. toks \in Seq(Token) /\ Laid(toks, q)
  BY LaidMore DEF Good, Laid
<1>2. Rising(tok.at) /\ ToSet(tok.at) = q..(r - 1) /\ (q < r => tok.at # <<>> /\ tok.at[1] = q)
  <2>1. /\ Rising(From(q, r)) /\ ToSet(From(q, r)) = q..(r - 1)
        /\ q < r => From(q, r) # <<>> /\ From(q, r)[1] = q
    BY FromRange, ZenonT(30)
  <2> QED BY <2>1
<1>3. Laid(Append(toks, tok), r)
  BY <1>1, <1>2, LaidAppend
<1>4. DoorsIn(Append(toks, tok))
  BY <1>1, <1>2, DoorsAppend DEF Good
<1>5. ASSUME ~ Faulted(Append(toks, tok)) PROVE Spent(Append(toks, tok), <<>>, r, more)
  <2>1. ~ Faulted(toks)
    BY <1>1, <1>5, FaultedAppend
  <2>2. Spent(toks, <<>>, p, gone)
    BY <2>1 DEF Good
  <2>3. HeldIn(Append(toks, tok)) = HeldIn(toks) \cup q..(r - 1)
    BY <1>1, <1>2, HeldAppend
  <2>4. \A k \in 1..(r - 1) : k \in 1..(p - 1) \/ k \in p..(q - 1) \/ k \in q..(r - 1)
    OBVIOUS
  <2>5. \A k : Near(toks, k) \/ Beside(k, tok) => Near(Append(toks, tok), k)
    BY <1>1, NearAppend
  <2>6. \A k : Layout(toks, HeldIn(toks) \cup ToSet(<<>>), gone, k)
                 => Layout(Append(toks, tok), HeldIn(Append(toks, tok)) \cup ToSet(<<>>), more, k)
    BY <1>1, <2>3, LayoutAppend
  <2> QED BY <2>2, <2>3, <2>4, <2>5, <2>6 DEF Spent, Layout
<1> QED BY <1>3, <1>4, <1>5 DEF Good

LEMMA GoodSkip ==
  ASSUME NEW p \in Nat \ {0}, NEW q \in Nat, p <= q,
         NEW toks, NEW gone, NEW more, Good(toks, p, gone), gone \subseteq more,
         \A k \in p..(q - 1) : k \in more \/ AfterComment(k, more) \/ Near(toks, k)
  PROVE  Good(toks, q, more)
<1>1. Laid(toks, q)
  BY LaidMore DEF Good
<1>2. \A k \in 1..(q - 1) : k \in 1..(p - 1) \/ k \in p..(q - 1)
  OBVIOUS
<1>3. \A k : Layout(toks, HeldIn(toks) \cup ToSet(<<>>), gone, k)
               => Layout(toks, HeldIn(toks) \cup ToSet(<<>>), more, k)
  BY LayoutMore
<1> QED BY <1>1, <1>2, <1>3 DEF Good, Spent, Layout

(* After an error nothing is asked of what is left. *)
LEMMA GoodFault ==
  ASSUME NEW p \in Nat \ {0}, NEW q \in Nat, p <= q, NEW i \in Nat,
         NEW toks, NEW gone, Good(toks, p, gone)
  PROVE  Good(Append(toks, Tok("ERROR", i, i)), q, gone)
<1> DEFINE tok == Tok("ERROR", i, i)
<1>1. tok \in Token /\ tok.k = "ERROR" /\ Rising(tok.at) /\ ToSet(tok.at) = i..(i - 1)
  <2>1. From(i, i) \in Seq(Nat) /\ Rising(From(i, i)) /\ ToSet(From(i, i)) = i..(i - 1)
    <3>1. i <= i
      OBVIOUS
    <3> QED BY <3>1, FromRange
  <2> QED BY <2>1 DEF Tok, Token, Kinds
<1>2. ToSet(tok.at) \subseteq p..(q - 1) /\ tok.k \notin Marks
  BY <1>1 DEF Marks
<1> HIDE DEF tok
<1>3. Laid(Append(toks, tok), q)
  BY <1>1, <1>2, LaidAppend DEF Good
<1>4. toks \in Seq(Token) /\ DoorsIn(Append(toks, tok))
  BY <1>1, DoorsAppend DEF Good, Laid
<1>5. Faulted(Append(toks, tok))
  <2>1. Len(toks) + 1 \in DOMAIN Append(toks, tok) /\ Append(toks, tok)[Len(toks) + 1] = tok
    BY <1>4
  <2> QED BY <1>1, <2>1 DEF Faulted
<1> QED BY <1>3, <1>4, <1>5 DEF Good, tok

-----------------------------------------------------------------------------
(* The text that is being read *)

TextGood(toks, s, p, gone) ==
  /\ \E b \in 1..p : Laid(toks, b) /\ s \in Seq(Nat) /\ Rising(s) /\ ToSet(s) \subseteq b..(p - 1)
  /\ ~ Faulted(toks) => Spent(toks, s, p, gone)
  /\ DoorsIn(toks)

(* From q on there are only bytes of an indentation.                        *)
Run(q, p) == \A k \in q..(p - 1) : At(k) \in IndentBytes

(* At a line start: what was written of the line is blank or escaped,       *)
Indent(s, mark, p) == \A n \in (mark + 1)..Len(s) : InIndent(s[n]) /\ Run(s[n], p)

(* and so is all that was read of it, unless a body ended on this line.     *)
Ended(toks, mark) == mark = 0 /\ EndsIn(toks, Ends)

Holds(p, m, s, mark, start, toks, gone) ==
  /\ p \in 1..(Len(code) + 1)
  /\ m \in {"text", "interp", "head"}
  /\ mark \in 0..Len(s)
  /\ TextGood(toks, s, p, gone)
  /\ m # "text" => s = <<>>
  /\ m = "text" /\ p <= Len(code) /\ start => Indent(s, mark, p) /\ (Ended(toks, mark) \/ LineOpen(p))

(* The scan that is over: a trim took what the tokens before had.           *)
Over(p, s, toks, gone) ==
  /\ Laid(toks, p) /\ DoorsIn(toks) /\ s = <<>>
  /\ ~ Faulted(toks) => \A q \in 1..(p - 1) :
       \/ q \in gone \/ q \in HeldIn(toks) \/ Layout(toks, HeldIn(toks), gone, q)
       \/ \E i \in DOMAIN toks : TrimmedBy(q, toks[i], HeldIn(toks))

LexInv ==
  /\ code \in Seq(Bytes)
  /\ IF mode = "done" THEN Over(pos, buf, out, consumed)
     ELSE Holds(pos, mode, buf, lineMark, atLineStart, out, consumed)

LEMMA Unmoved ==
  ASSUME code' = code
  PROVE  /\ \A i : At(i)' = At(i)
         /\ \A p : LineOpen(p)' = LineOpen(p)
         /\ \A s, mark, p : Indent(s, mark, p)' = Indent(s, mark, p)
         /\ \A toks : DoorsIn(toks)' = DoorsIn(toks)
         /\ \A toks, kept, gone, q : Layout(toks, kept, gone, q)' = Layout(toks, kept, gone, q)
         /\ \A q, t, kept : TrimmedBy(q, t, kept)' = TrimmedBy(q, t, kept)
<1>1. /\ \A i : At(i)' = At(i)
      /\ \A i, S : RunEnd(i, S)' = RunEnd(i, S)
  BY DEF RunEnd, At
<1>2. \A i : Escapes(i)' = Escapes(i)
  BY <1>1 DEF Escapes
<1>3. \A p : InIndent(p)' = InIndent(p)
  BY <1>1, <1>2 DEF InIndent
<1>4. \A p : LineOpen(p)' = LineOpen(p)
  BY <1>1, <1>3 DEF LineOpen
<1>5. \A s, mark, p : Indent(s, mark, p)' = Indent(s, mark, p)
  <2>1. \A q, p : Run(q, p)' = Run(q, p)
    BY <1>1 DEF Run
  <2> QED BY <1>3, <2>1 DEF Indent
<1>6. \A toks : DoorsIn(toks)' = DoorsIn(toks)
  BY <1>4 DEF DoorsIn
<1>7. \A q, t : Beside(q, t)' = Beside(q, t)
  <2>1. \A q, t : Indentation(q, t)' = Indentation(q, t)
    BY <1>1, <1>3 DEF Indentation
  <2>2. \A q, t : AfterOpen(q, t)' = AfterOpen(q, t)
    BY <1>1 DEF AfterOpen
  <2>3. \A q, t : AfterClose(q, t)' = AfterClose(q, t)
    BY <1>1 DEF AfterClose
  <2>4. \A q, t : BeforeBody(q, t)' = BeforeBody(q, t)
    BY <1>1 DEF BeforeBody
  <2> QED BY <2>1, <2>2, <2>3, <2>4 DEF Beside
<1>8. \A q, gone : AfterComment(q, gone)' = AfterComment(q, gone)
  BY <1>1 DEF AfterComment, CommentCloses
<1>9. \A q, kept : EscapeOf(q, kept)' = EscapeOf(q, kept)
  BY <1>2 DEF EscapeOf
<1>10. \A toks, kept, gone, q : Layout(toks, kept, gone, q)' = Layout(toks, kept, gone, q)
  BY <1>7, <1>8, <1>9 DEF Layout, Near
<1>11. \A q, t, kept : TrimmedBy(q, t, kept)' = TrimmedBy(q, t, kept)
  BY <1>1, ZenonT(60) DEF TrimmedBy
<1> QED BY <1>1, <1>4, <1>5, <1>6, <1>10, <1>11

LEMMA HoldsNext ==
  ASSUME code \in Seq(Bytes), code' = code,
         Holds(pos', mode', buf', lineMark', atLineStart', out', consumed')
  PROVE  LexInv'
<1>1. mode' # "done"
  BY DEF Holds
<1>2. \A toks, s, p, gone : Spent(toks, s, p, gone)' = Spent(toks, s, p, gone)
  BY Unmoved DEF Spent
<1> QED BY <1>1, <1>2, Unmoved DEF LexInv, Holds, TextGood

LEMMA OverNext ==
  ASSUME code \in Seq(Bytes), code' = code, mode' = "done", Over(pos', buf', out', consumed')
  PROVE  LexInv'
<1>1. Over(pos, buf, out, consumed)'
  BY Unmoved DEF Over
<1> QED BY <1>1 DEF LexInv

LEMMA TokenIs ==
  ASSUME NEW k \in Kinds \cup Bytes, NEW i \in Nat, NEW j \in Nat, i <= j,
         NEW t \in CloseTrims \cup {""}
  PROVE  /\ Tok(k, i, j) \in Token /\ Tok(k, i, j).k = k /\ Tok(k, i, j).at = From(i, j)
         /\ Trimmed(k, i, j, t) \in Token /\ Trimmed(k, i, j, t).k = k /\ Trimmed(k, i, j, t).at = From(i, j)
<1>1. From(i, j) \in Seq(Nat)
  BY FromRange
<1> QED BY <1>1 DEF Tok, Trimmed, Token

LEMMA GoodText ==
  ASSUME NEW p \in Nat \ {0}, NEW toks, NEW gone, Good(toks, p, gone)
  PROVE  TextGood(toks, <<>>, p, gone)
<1>1. p \in 1..p /\ <<>> \in Seq(Nat) /\ Rising(<<>>)
  <2>1. \A n \in 2..Len(<<>>) : FALSE
    OBVIOUS
  <2> QED BY <2>1 DEF Rising
<1>2. ToSet(<<>>) = {}
  BY DEF ToSet
<1> QED BY <1>1, <1>2 DEF Good, TextGood

LEMMA CodeGood ==
  ASSUME NEW p \in Nat \ {0}, NEW toks, NEW gone, TextGood(toks, <<>>, p, gone)
  PROVE  Good(toks, p, gone)
<1>1. PICK b \in 1..p : Laid(toks, b)
  BY DEF TextGood
<1>2. Laid(toks, p)
  BY <1>1, LaidMore
<1> QED BY <1>2 DEF Good, TextGood

Written(s, mark) == {s[n] : n \in 1..mark}
Flushed(toks, s, mark) == toks \o TextTok(SubSeq(s, 1, mark))

(* The text so far becomes a token, up to a mark. *)
LEMMA TextFlushed ==
  ASSUME NEW p \in Nat \ {0}, NEW toks, NEW s, NEW gone, TextGood(toks, s, p, gone),
         NEW mark \in 0..Len(s)
  PROVE  /\ Laid(Flushed(toks, s, mark), p) /\ DoorsIn(Flushed(toks, s, mark))
         /\ ~ Faulted(Flushed(toks, s, mark)) => ~ Faulted(toks)
         /\ HeldIn(Flushed(toks, s, mark)) = HeldIn(toks) \cup Written(s, mark)
         /\ \A q : Near(toks, q) => Near(Flushed(toks, s, mark), q)
         /\ mark = 0 => Flushed(toks, s, mark) = toks
<1>1. PICK b \in 1..p : Laid(toks, b) /\ s \in Seq(Nat) /\ Rising(s) /\ ToSet(s) \subseteq b..(p - 1)
  BY DEF TextGood
<1>0. PICK more : more = Flushed(toks, s, mark)
  OBVIOUS
<1>2. toks \in Seq(Token) /\ Len(s) \in Nat /\ mark \in Nat /\ b \in Nat /\ b > 0 /\ b <= p
  BY <1>1 DEF Laid
<1> DEFINE kept == SubSeq(s, 1, mark)
           tok == [k |-> "TEXT", at |-> kept, trim |-> ""]
<1>3. kept \in Seq(Nat) /\ Len(kept) = mark /\ \A n \in 1..mark : kept[n] = s[n]
  BY <1>1, <1>2
<1> HIDE DEF kept
<1>4. Rising(kept)
  <2>1. \A n \in 2..mark : n \in 2..Len(s) /\ n \in 1..mark /\ n - 1 \in 1..mark
    BY <1>2
  <2> QED BY <1>1, <1>3, <2>1 DEF Rising
<1>5. ToSet(kept) = {s[n] : n \in 1..mark}
  <2>1. DOMAIN kept = 1..mark
    BY <1>3
  <2> QED BY <1>3, <2>1 DEF ToSet
<1>6. ToSet(s) = {s[n] : n \in 1..Len(s)}
  BY <1>1 DEF ToSet
<1>7. ToSet(kept) \subseteq b..(p - 1)
  <2>1. \A n \in 1..mark : n \in 1..Len(s)
    BY <1>2
  <2> QED BY <1>1, <1>5, <1>6, <2>1
<1>9. CASE mark = 0
  <2>1. kept = <<>>
    BY <1>3, <1>9, EmptySeq
  <2>2. more = toks
    BY <1>0, <1>2, <2>1 DEF TextTok, kept, Flushed
  <2>3. ToSet(kept) = {}
    BY <2>1 DEF ToSet
  <2>4. Laid(toks, p)
    BY <1>1, <1>2, LaidMore
  <2> QED BY <1>0, <1>5, <2>2, <2>3, <2>4 DEF TextGood, Written
<1>10. CASE mark # 0
  <2>1. kept # <<>>
    BY <1>3, <1>10
  <2>2. more = Append(toks, tok)
    <3>1. TextTok(kept) = <<tok>>
      BY <2>1 DEF TextTok
    <3> HIDE DEF tok
    <3>2. toks \o <<tok>> = Append(toks, tok)
      BY <1>2
    <3> QED BY <1>0, <3>1, <3>2 DEF kept, Flushed
  <2>3. tok \in Token /\ tok.k = "TEXT" /\ tok.at = kept /\ tok.k \notin Marks
    BY <1>3 DEF Token, Kinds, Marks
  <2> HIDE DEF tok
  <2>4. Laid(more, p)
    BY <1>1, <1>2, <1>4, <1>7, <2>2, <2>3, LaidAppend
  <2>5. DoorsIn(more)
    BY <1>2, <2>2, <2>3, DoorsAppend DEF TextGood
  <2>6. HeldIn(more) = HeldIn(toks) \cup ToSet(kept)
    BY <1>2, <2>2, <2>3, HeldAppend
  <2>7. ~ Faulted(more) => ~ Faulted(toks)
    BY <1>2, <2>2, <2>3, FaultedAppend
  <2>8. \A q : Near(toks, q) => Near(more, q)
    <3>1. \A q : Near(toks, q) => Near(Append(toks, tok), q)
      BY <1>2, <2>3, NearAppend
    <3> QED BY <2>2, <3>1
  <2> QED BY <1>0, <1>5, <1>10, <2>4, <2>5, <2>6, <2>7, <2>8 DEF Written
<1> QED BY <1>9, <1>10

LEMMA FlushGood ==
  ASSUME pos \in Nat \ {0}, NEW gone, TextGood(out, buf, pos, gone)
  PROVE  Good(Flush, pos, gone)
<1>1. buf \in Seq(Nat) /\ Len(buf) \in 0..Len(buf)
  BY DEF TextGood
<1>2. PICK p \in Nat \ {0} : p = pos
  OBVIOUS
<1>3. PICK more : more = Flush
  OBVIOUS
<1>4. more = Flushed(out, buf, Len(buf))
  <2>1. SubSeq(buf, 1, Len(buf)) = buf
    BY <1>1
  <2> QED BY <1>3, <2>1 DEF Flush, Flushed
<1>5. /\ Laid(more, p) /\ DoorsIn(more) /\ (~ Faulted(more) => ~ Faulted(out))
      /\ HeldIn(more) = HeldIn(out) \cup Written(buf, Len(buf))
      /\ \A q : Near(out, q) => Near(more, q)
  BY <1>1, <1>2, <1>4, TextFlushed
<1>6. ToSet(buf) = Written(buf, Len(buf))
  BY <1>1 DEF ToSet, Written
<1>7. ASSUME ~ Faulted(more) PROVE Spent(more, <<>>, p, gone)
  <2>1. Spent(out, buf, p, gone)
    BY <1>2, <1>5, <1>7 DEF TextGood
  <2>2. HeldIn(out) \cup ToSet(buf) \subseteq HeldIn(more) \cup ToSet(<<>>)
    BY <1>5, <1>6
  <2>3. \A q : Layout(out, HeldIn(out) \cup ToSet(buf), gone, q)
                 => Layout(more, HeldIn(more) \cup ToSet(<<>>), gone, q)
    BY <1>5, <2>2, LayoutMore
  <2> QED BY <1>5, <1>6, <2>1, <2>3 DEF Spent
<1> QED BY <1>2, <1>3, <1>5, <1>7 DEF Good

-----------------------------------------------------------------------------
(* Doors *)

LEMMA NewLine ==
  ASSUME NEW p \in Nat, At(p - 1) = NL
  PROVE  LineOpen(p)
<1>1. \A q \in 1..(p - 1) : p - 1 \in q..(p - 1)
  OBVIOUS
<1> QED BY <1>1 DEF LineOpen

LEMMA InTextAt == ASSUME LexInv, InText PROVE pos \in 1..Len(code)
<1>1. pos \in 1..(Len(code) + 1) /\ Len(code) \in Nat
  BY DEF LexInv, Holds, InText
<1>2. pos <= Len(code)
  BY DEF InText
<1> QED BY <1>1, <1>2

(* The indentation before a door is its own. *)
LEMMA IndentIsBeside ==
  ASSUME code \in Seq(Bytes), NEW p \in 1..Len(code), At(p) \notin IndentBytes,
         NEW q \in 1..p, Run(q, p), InIndent(q),
         NEW tok, tok.k \in {"STMT", "BLOCK_CLOSE"}, tok.at[1] = p
  PROVE  Beside(q, tok)
<1>1. "eof" \notin IndentBytes
  BY DEF IndentBytes, Esc
<1>2. q \in 1..(Len(code) + 1) /\ p \in q..(Len(code) + 1)
  OBVIOUS
<1>3. RunEnd(q, IndentBytes) = p
  BY <1>1, <1>2, RunIs DEF Run
<1> QED BY <1>3 DEF Beside, Indentation

LEMMA SplitText ==
  ASSUME NEW s \in Seq(Nat), NEW mark \in 0..Len(s), NEW q \in ToSet(s)
  PROVE  q \in Written(s, mark) \/ \E n \in (mark + 1)..Len(s) : n \in 1..Len(s) /\ q = s[n]
<1>1. PICK n \in 1..Len(s) : q = s[n]
  BY DEF ToSet
<1>2. n \in 1..mark \/ n \in (mark + 1)..Len(s)
  OBVIOUS
<1> QED BY <1>1, <1>2 DEF Written

(* A door takes the text before it, but for the indentation of its line. *)
LEMMA DoorGood ==
  ASSUME LexInv, InText, atLineStart, At(pos) = "@", NEW r \in Nat, pos < r,
         NEW tok \in Token, tok.k \in {"STMT", "BLOCK_CLOSE"}, tok.at = From(pos, r)
  PROVE  Good(Append(FlushBeforeStatement, tok), r, consumed)
<1>1. PICK p \in 1..Len(code) : p = pos
  BY InTextAt
<1>2. /\ code \in Seq(Bytes) /\ lineMark \in 0..Len(buf) /\ TextGood(out, buf, p, consumed)
      /\ Indent(buf, lineMark, p) /\ (Ended(out, lineMark) \/ LineOpen(p)) /\ At(p) = "@"
  BY <1>1 DEF LexInv, Holds, InText
<1>3. PICK b \in 1..p : Laid(out, b) /\ buf \in Seq(Nat) /\ ToSet(buf) \subseteq b..(p - 1)
  BY <1>2 DEF TextGood
<1>4. p \in Nat \ {0} /\ p < r /\ p \in Nat /\ p <= r
  BY <1>1
<1>5. PICK kept : kept = FlushBeforeStatement
  OBVIOUS
<1>6. kept = Flushed(out, buf, lineMark)
  BY <1>5 DEF Flushed, FlushBeforeStatement
<1>7. /\ Laid(kept, p) /\ DoorsIn(kept) /\ (~ Faulted(kept) => ~ Faulted(out))
      /\ HeldIn(kept) = HeldIn(out) \cup Written(buf, lineMark)
      /\ \A q : Near(out, q) => Near(kept, q)
      /\ lineMark = 0 => kept = out
  BY <1>2, <1>4, <1>6, TextFlushed
<1>8. kept \in Seq(Token)
  BY <1>7 DEF Laid
<1>9. Rising(tok.at) /\ ToSet(tok.at) = p..(r - 1) /\ tok.at # <<>> /\ tok.at[1] = p
  <2>1. /\ Rising(From(p, r)) /\ ToSet(From(p, r)) = p..(r - 1)
        /\ From(p, r) # <<>> /\ From(p, r)[1] = p
    BY <1>4, FromRange
  <2>2. tok.at = From(p, r)
    BY <1>1
  <2> QED
    BY <2>1, <2>2
<1>10. PICK more : more = Append(kept, tok)
  OBVIOUS
<1>11. Laid(more, r)
  BY <1>4, <1>7, <1>9, <1>10, LaidAppend
<1>12. DoorsIn(more)
  BY <1>2, <1>7, <1>8, <1>9, <1>10, DoorsAppend DEF Ended
<1>13. ASSUME ~ Faulted(more) PROVE Spent(more, <<>>, r, consumed)
  <2>1. Spent(out, buf, p, consumed)
    BY <1>2, <1>7, <1>8, <1>10, <1>13, FaultedAppend DEF TextGood
  <2>2. HeldIn(more) = HeldIn(out) \cup Written(buf, lineMark) \cup p..(r - 1)
    BY <1>7, <1>8, <1>9, <1>10, HeldAppend
  <2>3. \A q : Near(out, q) \/ Beside(q, tok) => Near(more, q)
    BY <1>7, <1>8, <1>10, NearAppend
  <2>4. \A q \in 1..(r - 1) : q \in 1..(p - 1) \/ q \in p..(r - 1)
    BY <1>4
  <2>5. At(p) \notin IndentBytes
    BY <1>2 DEF IndentBytes, Esc
  <2>6. \A q \in 1..(p - 1) : InIndent(q) /\ Run(q, p) => Near(more, q)
    <3>1. \A q \in 1..(p - 1) : q \in 1..p
      OBVIOUS
    <3> QED BY <1>2, <1>9, <2>3, <2>5, <3>1, IndentIsBeside
  <2>7. \A q \in ToSet(buf) : q \in HeldIn(more) \/ (InIndent(q) /\ Run(q, p))
    BY <1>2, <1>3, <2>2, SplitText, SMTT(30) DEF Indent
  <2>8. ASSUME NEW q \in 1..(p - 1), EscapeOf(q, HeldIn(out) \cup ToSet(buf))
        PROVE  Layout(more, HeldIn(more), consumed, q)
    <3>1. Escapes(q) /\ q + 1 \in HeldIn(out) \cup ToSet(buf) /\ InIndent(q)
      BY <2>8 DEF EscapeOf, InIndent
    <3>2. CASE q + 1 \in HeldIn(more)
      BY <3>1, <3>2 DEF Layout, EscapeOf
    <3>3. CASE Run(q + 1, p)
      <4>1. At(q) \in IndentBytes
        BY <3>1 DEF Escapes, IndentBytes
      <4>2. \A k \in q..(p - 1) : k = q \/ k \in (q + 1)..(p - 1)
        OBVIOUS
      <4>3. Run(q, p)
        BY <3>3, <4>1, <4>2 DEF Run
      <4> QED BY <2>6, <3>1, <4>3 DEF Layout
    <3> QED BY <2>2, <2>7, <3>1, <3>2, <3>3
  <2>9. ASSUME NEW q \in 1..(p - 1), Layout(out, HeldIn(out) \cup ToSet(buf), consumed, q)
        PROVE  Layout(more, HeldIn(more), consumed, q)
    BY <2>3, <2>8, <2>9 DEF Layout
  <2>10. ASSUME NEW q \in 1..(p - 1)
         PROVE  q \in consumed \/ q \in HeldIn(more) \/ Layout(more, HeldIn(more), consumed, q)
    BY <2>1, <2>2, <2>6, <2>7, <2>9 DEF Spent, Layout
  <2>11. HeldIn(more) \cup ToSet(<<>>) = HeldIn(more)
    BY DEF ToSet
  <2> QED BY <2>2, <2>4, <2>10, <2>11 DEF Spent
<1> QED BY <1>5, <1>10, <1>11, <1>12, <1>13 DEF Good

LEMMA GotoHolds ==
  ASSUME code \in Seq(Bytes), NEW m \in {"text", "interp", "head"},
         NEW i \in 1..(Len(code) + 1), NEW toks, Goto(m, i, toks), Good(toks, i, consumed'),
         m = "text" /\ i <= Len(code) /\ atLineStart' => Ended(toks, 0) \/ LineOpen(i)
  PROVE  LexInv'
<1>1. code' = code /\ mode' = m /\ pos' = i /\ out' = toks /\ buf' = <<>> /\ lineMark' = 0
  BY DEF Goto
<1>2. TextGood(toks, <<>>, i, consumed')
  BY GoodText
<1>3. 0 \in 0..Len(<<>>) /\ \A n \in (0 + 1)..Len(<<>>) : FALSE
  OBVIOUS
<1>4. Indent(<<>>, 0, i)
  BY <1>3 DEF Indent
<1>5. Holds(i, m, <<>>, 0, atLineStart', toks, consumed')
  BY <1>2, <1>3, <1>4 DEF Holds
<1> QED BY <1>1, <1>5, HoldsNext

-----------------------------------------------------------------------------
(* scanText *)

LEMMA EitherSide ==
  ASSUME NEW p \in Nat, NEW r \in Nat, p <= r, NEW q \in 1..(r - 1)
  PROVE  q \in p..(r - 1) \/ (q \in 1..(p - 1) /\ q \in Nat /\ \A k \in q..(p - 1) : k \in q..(r - 1))
OBVIOUS

LEMMA OneMore ==
  ASSUME NEW s \in Seq(Nat), NEW mark \in Nat, NEW x \in Nat
  PROVE  /\ Len(Append(s, x)) = Len(s) + 1 /\ Append(s, x)[Len(s) + 1] = x
         /\ \A n \in 1..Len(s) : Append(s, x)[n] = s[n] /\ s[n] \in Nat
         /\ \A n \in (mark + 1)..(Len(s) + 1) :
              n = Len(s) + 1 \/ (n \in (mark + 1)..Len(s) /\ n \in 1..Len(s))
OBVIOUS

LEMMA OpenMore ==
  ASSUME NEW p \in Nat, NEW r \in Nat, p <= r, LineOpen(p), \A k \in p..(r - 1) : InIndent(k)
  PROVE  LineOpen(r)
<1>1. ASSUME NEW q \in 1..(r - 1)
      PROVE  q \in p..(r - 1) \/ (q \in 1..(p - 1) /\ q \in Nat /\ \A k \in q..(p - 1) : k \in q..(r - 1))
  BY EitherSide
<1> SUFFICES ASSUME NEW q \in 1..(r - 1), \A k \in q..(r - 1) : At(k) # NL
             PROVE  InIndent(q)
  BY DEF LineOpen
<1>2. CASE q \in p..(r - 1)
  BY <1>2
<1>3. CASE q \in 1..(p - 1) /\ q \in Nat /\ \A k \in q..(p - 1) : k \in q..(r - 1)
  BY <1>3 DEF LineOpen
<1> QED BY <1>1, <1>2, <1>3

LEMMA RunMore ==
  ASSUME NEW p \in Nat, NEW r \in Nat, p <= r, NEW q \in Nat, Run(q, p),
         \A k \in p..(r - 1) : At(k) \in IndentBytes
  PROVE  Run(q, r)
<1>1. \A k \in q..(r - 1) : k \in q..(p - 1) \/ k \in p..(r - 1)
  OBVIOUS
<1> QED BY <1>1 DEF Run

LEMMA IndentMore ==
  ASSUME NEW p \in Nat, NEW r \in Nat, p <= r, NEW s \in Seq(Nat), NEW mark \in Nat, Indent(s, mark, p),
         \A k \in p..(r - 1) : At(k) \in IndentBytes,
         NEW x \in Nat, x \in p..(r - 1), InIndent(x)
  PROVE  Indent(Append(s, x), mark, r)
<1> DEFINE t == Append(s, x)
<1>1. /\ Len(t) = Len(s) + 1 /\ t[Len(s) + 1] = x
      /\ \A n \in 1..Len(s) : t[n] = s[n] /\ s[n] \in Nat
      /\ \A n \in (mark + 1)..Len(t) : n = Len(s) + 1 \/ (n \in (mark + 1)..Len(s) /\ n \in 1..Len(s))
  BY OneMore
<1> HIDE DEF t
<1> SUFFICES ASSUME NEW n \in (mark + 1)..Len(t) PROVE InIndent(t[n]) /\ Run(t[n], r)
  BY DEF Indent, t
<1>2. Run(x, r)
  <2>1. \A k \in x..(r - 1) : k \in p..(r - 1)
    OBVIOUS
  <2> QED BY <2>1 DEF Run
<1>3. CASE n = Len(s) + 1
  BY <1>1, <1>2, <1>3
<1>4. CASE n \in (mark + 1)..Len(s) /\ n \in 1..Len(s)
  <2>1. InIndent(s[n]) /\ Run(s[n], p)
    BY <1>4 DEF Indent
  <2> QED BY <1>1, <1>4, <2>1, RunMore
<1> QED BY <1>1, <1>3, <1>4

LEMMA TextMore ==
  ASSUME NEW p \in Nat \ {0}, NEW r \in Nat, NEW toks, NEW s, NEW gone, TextGood(toks, s, p, gone),
         NEW x \in p..(r - 1), \A k \in p..(r - 1) : k = x \/ (Escapes(k) /\ k + 1 = x)
  PROVE  TextGood(toks, Append(s, x), r, gone)
<1>1. PICK b \in 1..p : Laid(toks, b) /\ s \in Seq(Nat) /\ Rising(s) /\ ToSet(s) \subseteq b..(p - 1)
  BY DEF TextGood
<1> DEFINE t == Append(s, x)
<1>2. PICK n \in Nat : n = Len(s)
  BY <1>1
<1>3. x \in Nat /\ b \in Nat /\ b <= p /\ p <= x /\ x < r
  OBVIOUS
<1>4. t \in Seq(Nat) /\ Len(t) = n + 1 /\ (\A i \in 1..n : t[i] = s[i]) /\ t[n + 1] = x
  BY <1>1, <1>2, <1>3
<1>5. \A i \in 1..n : s[i] \in b..(p - 1)
  BY <1>1, <1>2, SMTT(30) DEF ToSet
<1> HIDE DEF t
<1>6. Rising(t)
  <2> SUFFICES ASSUME NEW i \in 2..(n + 1) PROVE t[i - 1] < t[i]
    BY <1>4 DEF Rising
  <2>1. CASE i = n + 1
    <3>1. n \in 1..n /\ i - 1 = n
      BY <2>1
    <3>2. s[n] \in b..(p - 1)
      BY <1>5, <3>1
    <3> QED BY <1>3, <1>4, <2>1, <3>1, <3>2
  <2>2. CASE i # n + 1
    <3>1. i \in 2..n /\ i \in 1..n /\ i - 1 \in 1..n
      BY <2>2
    <3> QED BY <1>1, <1>2, <1>4, <3>1 DEF Rising
  <2> QED BY <2>1, <2>2
<1>7. ToSet(t) = ToSet(s) \cup {x}
  <2>1. \A i \in 1..(n + 1) : i \in 1..n \/ i = n + 1
    OBVIOUS
  <2>2. ToSet(t) = {t[i] : i \in 1..(n + 1)} /\ ToSet(s) = {s[i] : i \in 1..n}
    <3>1. DOMAIN t = 1..(n + 1) /\ DOMAIN s = 1..n
      BY <1>1, <1>2, <1>4
    <3> QED BY <3>1 DEF ToSet
  <2>3. \A i \in 1..n : i \in 1..(n + 1)
    OBVIOUS
  <2>4. n + 1 \in 1..(n + 1)
    OBVIOUS
  <2> QED BY <1>4, <2>1, <2>2, <2>3, <2>4
<1>8. ToSet(t) \subseteq b..(r - 1) /\ b \in 1..r
  <2>1. b..(p - 1) \subseteq b..(r - 1) /\ x \in b..(r - 1)
    BY <1>3
  <2> QED BY <1>1, <1>3, <1>7, <2>1
<1>9. ASSUME ~ Faulted(toks) PROVE Spent(toks, t, r, gone)
  <2>1. \A q \in 1..(r - 1) : q \in 1..(p - 1) \/ q \in p..(r - 1)
    BY <1>3
  <2>2. HeldIn(toks) \cup ToSet(s) \subseteq HeldIn(toks) \cup ToSet(t)
    BY <1>7
  <2>3. \A q : Layout(toks, HeldIn(toks) \cup ToSet(s), gone, q) => Layout(toks, HeldIn(toks) \cup ToSet(t), gone, q)
    BY <2>2, LayoutMore
  <2>4. \A q \in p..(r - 1) : q \in ToSet(t) \/ Layout(toks, HeldIn(toks) \cup ToSet(t), gone, q)
    BY <1>7 DEF Layout, EscapeOf
  <2> QED BY <1>7, <1>9, <2>1, <2>3, <2>4 DEF TextGood, Spent
<1> QED BY <1>1, <1>4, <1>6, <1>8, <1>9 DEF TextGood, t

LEMMA TextByteHolds == ASSUME LexInv, TextByte PROVE LexInv'
<1>1. PICK p \in 1..Len(code) : p = pos
  BY InTextAt DEF TextByte
<1>2. /\ code \in Seq(Bytes) /\ lineMark \in 0..Len(buf) /\ TextGood(out, buf, p, consumed) /\ mode = "text"
      /\ atLineStart => Indent(buf, lineMark, p) /\ (Ended(out, lineMark) \/ LineOpen(p))
  BY <1>1 DEF LexInv, Holds, TextByte, InText
<1>3. PICK r \in Nat : r = p + 1
  OBVIOUS
<1>4. p \in Nat \ {0} /\ r \in 1..(Len(code) + 1) /\ p <= r /\ r - 1 = p /\ \A k \in p..(r - 1) : k = p
  BY <1>2, <1>3
<1> DEFINE s == Append(buf, p)
<1>5. TextGood(out, s, r, consumed)
  <2>1. p \in p..(r - 1)
    BY <1>4
  <2> QED BY <1>2, <1>4, <2>1, TextMore
<1>6. buf \in Seq(Nat) /\ s \in Seq(Nat) /\ Len(s) = Len(buf) + 1 /\ lineMark \in Nat /\ Len(buf) \in Nat
  BY <1>2, <1>4 DEF TextGood
<1>7. lineMark \in 0..Len(s) /\ Len(s) \in 0..Len(s)
  BY <1>2, <1>6
<1>8. /\ pos' = r /\ buf' = s /\ code' = code /\ mode' = "text" /\ out' = out /\ consumed' = consumed
      /\ lineMark' = IF At(p) = NL THEN Len(s) ELSE lineMark
      /\ atLineStart' = (At(p) = NL \/ (At(p) = " " /\ atLineStart))
  BY <1>1, <1>2, <1>3 DEF TextByte
<1> HIDE DEF s
<1>9. CASE At(p) = NL
  <2>1. \A n \in (Len(s) + 1)..Len(s) : FALSE
    BY <1>6
  <2>2. Indent(s, Len(s), r)
    BY <2>1 DEF Indent
  <2>3. LineOpen(r)
    BY <1>4, <1>9, NewLine
  <2>4. Holds(r, "text", s, Len(s), atLineStart', out, consumed)
    BY <1>4, <1>5, <1>7, <2>2, <2>3 DEF Holds
  <2> QED BY <1>2, <1>8, <1>9, <2>4, HoldsNext
<1>10. CASE At(p) # NL
  <2>1. ASSUME atLineStart' PROVE Indent(s, lineMark, r) /\ (Ended(out, lineMark) \/ LineOpen(r))
    <3>1. At(p) = " " /\ atLineStart
      BY <1>8, <1>10, <2>1
    <3>2. \A k \in p..(r - 1) : At(k) \in IndentBytes /\ InIndent(k)
      BY <1>4, <3>1 DEF IndentBytes, InIndent
    <3>3. p \in p..(r - 1)
      BY <1>4
    <3>4. Indent(s, lineMark, r)
      BY <1>2, <1>4, <1>6, <3>1, <3>2, <3>3, IndentMore DEF s
    <3>5. LineOpen(p) => LineOpen(r)
      BY <1>4, <3>2, OpenMore
    <3> QED BY <1>2, <3>1, <3>4, <3>5
  <2>2. Holds(r, "text", s, lineMark, atLineStart', out, consumed)
    BY <1>4, <1>5, <1>7, <2>1 DEF Holds
  <2> QED BY <1>2, <1>8, <1>10, <2>2, HoldsNext
<1> QED BY <1>9, <1>10

LEMMA EscapedByteHolds == ASSUME LexInv, EscapedByte PROVE LexInv'
<1>1. PICK p \in 1..Len(code) : p = pos
  BY InTextAt DEF EscapedByte
<1>2. PICK x : x = p + 1
  OBVIOUS
<1>3. PICK r : r = p + 2
  OBVIOUS
<1>4. /\ code \in Seq(Bytes) /\ lineMark \in 0..Len(buf) /\ TextGood(out, buf, p, consumed) /\ mode = "text"
      /\ atLineStart => Indent(buf, lineMark, p) /\ (Ended(out, lineMark) \/ LineOpen(p))
  BY <1>1 DEF LexInv, Holds, EscapedByte, InText
<1>5. Escapes(p) /\ At(p) = Esc /\ At(x) \in {"{", "}", Esc}
  BY <1>1, <1>2 DEF EscapedByte, Escapes
<1>6. x \in 1..Len(code)
  <2>1. At(x) # "eof"
    BY <1>5 DEF Esc
  <2> QED BY <1>4, <2>1, AtBytes
<1>7. /\ p \in Nat \ {0} /\ p \in 1..p /\ p \in 1..x /\ x \in Nat /\ r \in Nat /\ p <= r
      /\ r \in 1..(Len(code) + 1) /\ x \in p..(r - 1) /\ \A k \in p..(r - 1) : k = p \/ k = x
      /\ (\A k \in p..(p - 1) : FALSE)
  <2> USE <1>1, <1>2, <1>3, <1>6
  <2>1. Len(code) \in Nat
    BY <1>4
  <2> QED BY <2>1
<1> DEFINE s == Append(buf, x)
<1>8. TextGood(out, s, r, consumed)
  <2>1. \A k \in p..(r - 1) : k = x \/ (Escapes(k) /\ k + 1 = x)
    BY <1>2, <1>5, <1>7
  <2> QED BY <1>4, <1>7, <2>1, TextMore
<1>9. buf \in Seq(Nat) /\ Len(s) = Len(buf) + 1 /\ Len(buf) \in Nat
  BY <1>4, <1>7 DEF TextGood
<1>10. lineMark \in 0..Len(s) /\ lineMark \in Nat
  BY <1>4, <1>9
<1>11. \A k \in p..(r - 1) : At(k) \in IndentBytes /\ InIndent(k)
  <2>1. At(p) \in IndentBytes /\ At(x) \in IndentBytes
    BY <1>5 DEF IndentBytes
  <2>2. InIndent(p) /\ InIndent(x)
    <3>1. x - 1 = p
      BY <1>2
    <3> QED BY <1>5, <3>1 DEF InIndent
  <2> QED BY <1>7, <2>1, <2>2
<1>12. ASSUME atLineStart PROVE Indent(s, lineMark, r) /\ (Ended(out, lineMark) \/ LineOpen(r))
  <2>1. Indent(s, lineMark, r)
    BY <1>4, <1>7, <1>9, <1>10, <1>11, <1>12, IndentMore
  <2>2. LineOpen(p) => LineOpen(r)
    BY <1>7, <1>11, OpenMore
  <2> QED BY <1>4, <1>12, <2>1, <2>2
<1>13. /\ pos' = r /\ buf' = s /\ code' = code /\ mode' = "text" /\ out' = out /\ consumed' = consumed
       /\ lineMark' = lineMark /\ atLineStart' = atLineStart
  BY <1>1, <1>2, <1>3, <1>4 DEF EscapedByte
<1> HIDE DEF s
<1>14. Holds(r, "text", s, lineMark, atLineStart', out, consumed)
  BY <1>7, <1>8, <1>10, <1>12, <1>13 DEF Holds
<1> QED BY <1>4, <1>13, <1>14, HoldsNext

-----------------------------------------------------------------------------
(* Doors that open *)

LEMMA TextState ==
  ASSUME LexInv, InText
  PROVE  Good(Flush, pos, consumed) /\ code \in Seq(Bytes) /\ pos \in 1..Len(code)
<1>1. pos \in 1..Len(code) /\ code \in Seq(Bytes) /\ TextGood(out, buf, pos, consumed)
  BY InTextAt DEF LexInv, Holds, InText
<1>2. pos \in Nat \ {0}
  BY <1>1
<1> QED BY <1>1, <1>2, FlushGood

LEMMA CodeState ==
  ASSUME LexInv, mode \in {"interp", "head"}
  PROVE  Good(out, pos, consumed) /\ code \in Seq(Bytes) /\ pos \in 1..(Len(code) + 1)
<1>1. pos \in 1..(Len(code) + 1) /\ code \in Seq(Bytes) /\ TextGood(out, <<>>, pos, consumed)
  BY DEF LexInv, Holds
<1>2. pos \in Nat \ {0}
  BY <1>1
<1> QED BY <1>1, <1>2, CodeGood

LEMMA FaultHolds ==
  ASSUME code \in Seq(Bytes), NEW p \in 1..(Len(code) + 1), pos \in 1..(Len(code) + 1),
         NEW toks, Good(toks, p, consumed), Fault(toks)
  PROVE  LexInv'
<1>1. PICK n \in Nat : n = Len(code) + 1
  OBVIOUS
<1>2. p \in Nat \ {0} /\ p <= n /\ pos \in Nat /\ n \in 1..(Len(code) + 1) /\ ~ (n <= Len(code))
  BY <1>1
<1> DEFINE more == Append(toks, Tok("ERROR", pos, pos))
<1>3. Good(more, n, consumed)
  BY <1>2, GoodFault
<1>4. Goto("text", n, more) /\ consumed' = consumed
  BY <1>1 DEF Fault
<1> HIDE DEF more
<1> QED BY <1>2, <1>3, <1>4, GotoHolds

(* A byte is followed by a place in the template. *)
LEMMA NextTo ==
  ASSUME code \in Seq(Bytes), NEW i, At(i) # "eof"
  PROVE  i \in 1..Len(code) /\ i \in Nat /\ i + 1 \in 1..(Len(code) + 1) /\ i + 1 \in i..(Len(code) + 1)
<1>1. i \in 1..Len(code) /\ Len(code) \in Nat
  BY AtBytes
<1> QED BY <1>1

LEMMA OpenInterpHolds == ASSUME LexInv, OpenInterp PROVE LexInv'
<1>1. Good(Flush, pos, consumed) /\ code \in Seq(Bytes) /\ pos \in 1..Len(code)
  BY TextState DEF OpenInterp
<1>2. At(pos + 1) # "eof"
  BY DEF OpenInterp
<1>3. PICK x : x = pos + 1
  OBVIOUS
<1>4. PICK y : y = pos + 2
  OBVIOUS
<1> DEFINE t == IF At(y) \in {"-", "~"} THEN At(y) ELSE ""
<1>5. PICK j : j = IF t = "" THEN y ELSE y + 1
  OBVIOUS
<1>6. x + 1 \in x..(Len(code) + 1)
  BY <1>1, <1>2, <1>3, NextTo
<1>7. x + 1 = y /\ pos + 3 = y + 1
  BY <1>1, <1>3, <1>4
<1>8. y \in pos..(Len(code) + 1) /\ pos \in Nat \ {0} /\ Len(code) + 1 \in Nat
  <2>1. Len(code) \in Nat
    BY <1>1
  <2> QED BY <1>1, <1>3, <1>6, <1>7, <2>1
<1>9. t \in CloseTrims \cup {""} /\ (t # "" => At(y) # "eof")
  BY DEF CloseTrims
<1>10. t # "" => y + 1 \in y..(Len(code) + 1)
  BY <1>1, <1>9, NextTo
<1> HIDE DEF t
<1>11. j \in y..(Len(code) + 1)
  <2>1. y \in y..(Len(code) + 1)
    BY <1>8
  <2> QED BY <1>5, <1>10, <2>1
<1>12. j \in Nat /\ pos < j /\ pos <= j /\ j \in 1..(Len(code) + 1)
  <2>1. pos < y
    BY <1>4, <1>8
  <2> QED BY <1>8, <1>11, <2>1
<1> DEFINE tok == Trimmed("OPEN_INTERP", pos, j, t)
<1>13. tok \in Token /\ tok.k = "OPEN_INTERP" /\ tok.at = From(pos, j)
  <2>1. "OPEN_INTERP" \in Kinds \cup Bytes /\ t \in CloseTrims \cup {""}
    BY <1>9 DEF Kinds
  <2>2. pos \in Nat /\ j \in Nat /\ pos <= j
    BY <1>8, <1>12
  <2> QED BY <2>1, <2>2, TokenIs, ZenonT(60)
<1>14. Goto("interp", j, Append(Flush, tok)) /\ consumed' = consumed
  BY <1>4, <1>5, <1>7 DEF OpenInterp, t
<1> HIDE DEF tok
<1>15. \A k \in pos..(pos - 1) : FALSE
  BY <1>8
<1>16. Good(Append(Flush, tok), j, consumed)
  BY <1>1, <1>8, <1>12, <1>13, <1>15, GoodAppend
<1> QED BY <1>1, <1>12, <1>14, <1>16, GotoHolds

LEMMA Appended ==
  ASSUME NEW S, NEW s \in Seq(S), NEW x \in S
  PROVE  Append(s, x) \in Seq(S) /\ Append(s, x) # <<>> /\ Append(s, x)[Len(Append(s, x))] = x
OBVIOUS

LEMMA Lesser == ASSUME NEW p \in Nat, NEW q \in Nat, p < q PROVE p <= q
OBVIOUS

LEMMA TrimmedIs ==
  \A kind \in Kinds \cup Bytes, i \in Nat, j \in Nat, t \in CloseTrims \cup {""} :
    i <= j => /\ Trimmed(kind, i, j, t) \in Token /\ Trimmed(kind, i, j, t).k = kind
              /\ Trimmed(kind, i, j, t).at = From(i, j)
BY TokenIs, ZenonT(60)

LEMMA CloseIs ==
  ASSUME NEW i \in Nat, NEW j \in Nat, i <= j, NEW t \in CloseTrims \cup {""},
         NEW tok, tok = Trimmed("BLOCK_CLOSE", i, j, t)
  PROVE  tok \in Token /\ tok.k = "BLOCK_CLOSE" /\ tok.at = From(i, j)
<1>1. "BLOCK_CLOSE" \in Kinds \cup Bytes
  BY DEF Kinds
<1> QED BY <1>1, TokenIs, ZenonT(60)

LEMMA GoodToken ==
  ASSUME NEW p \in Nat \ {0}, NEW q \in Nat, NEW r \in Nat, p <= q, q <= r,
         NEW toks, NEW gone, Good(toks, p, gone),
         NEW kind \in Kinds \cup Bytes, kind \in Marks => q < r, NEW t \in CloseTrims \cup {""},
         \A k \in p..(q - 1) : Near(toks, k) \/ Beside(k, Trimmed(kind, q, r, t)),
         kind \in {"STMT", "BLOCK_CLOSE"} =>
           \/ EndsIn(toks, Ends)
           \/ q < r /\ LineOpen(q)
  PROVE  /\ Good(Append(toks, Trimmed(kind, q, r, t)), r, gone)
         /\ EndsIn(Append(toks, Trimmed(kind, q, r, t)), {kind})
<1>1. PICK tok : tok = Trimmed(kind, q, r, t)
  OBVIOUS
<1>2. tok \in Token /\ tok.k = kind /\ tok.at = From(q, r)
  <2>1. Trimmed(kind, q, r, t) \in Token /\ Trimmed(kind, q, r, t).k = kind
        /\ Trimmed(kind, q, r, t).at = From(q, r)
    BY TrimmedIs, ZenonT(60)
  <2> QED BY <1>1, <2>1
<1>3. Good(Append(toks, tok), r, gone)
  <2>1. \A k \in p..(q - 1) : Near(toks, k) \/ Beside(k, tok)
    BY <1>1
  <2> QED BY <1>2, <2>1, GoodAppend
<1>4. toks \in Seq(Token)
  BY DEF Good, Laid
<1>5. EndsIn(Append(toks, tok), {kind})
  <2>1. Append(toks, tok) # <<>> /\ Append(toks, tok)[Len(Append(toks, tok))] = tok
    BY <1>2, <1>4, Appended, ZenonT(30)
  <2> QED BY <1>2, <2>1, Zenon DEF EndsIn
<1> QED BY <1>1, <1>3, <1>5

LEMMA NoneBetween == ASSUME NEW p \in Nat PROVE (\A k \in p..(p - 1) : FALSE) /\ p <= p
OBVIOUS

LEMMA TokenEnds ==
  ASSUME NEW p \in Nat \ {0}, NEW r \in Nat, p <= r, NEW toks, NEW gone, Good(toks, p, gone),
         NEW kind \in Kinds \cup Bytes, kind \in Marks => p < r, NEW t \in CloseTrims \cup {""},
         kind \in {"STMT", "BLOCK_CLOSE"} =>
           \/ EndsIn(toks, Ends)
           \/ p < r /\ LineOpen(p),
         NEW more, more = Append(toks, Trimmed(kind, p, r, t))
  PROVE  Good(more, r, gone) /\ EndsIn(more, {kind})
<1>1. p \in Nat
  OBVIOUS
<1>2. (\A k \in p..(p - 1) : FALSE) /\ p <= p
  BY <1>1, NoneBetween, Zenon
<1> QED BY <1>1, <1>2, GoodToken

LEMMA PlainToken ==
  ASSUME NEW kind, NEW i, NEW j
  PROVE  Tok(kind, i, j) = Trimmed(kind, i, j, "")
BY DEF Tok, Trimmed

LEMMA InRange ==
  ASSUME NEW p \in Nat, NEW n \in Nat, NEW l \in (p + 2)..n
  PROVE  l \in Nat /\ p < l
OBVIOUS

LEMMA CommentHolds == ASSUME LexInv, Comment PROVE LexInv'
<1>1. Good(Flush, pos, consumed) /\ code \in Seq(Bytes) /\ pos \in 1..Len(code)
  BY TextState DEF Comment
<1>2. PICK n \in Nat : n = Len(code) + 1
  BY <1>1
<1>3. pos \in Nat \ {0} /\ pos \in 1..n
  BY <1>1, <1>2
<1> DEFINE ends == {i \in (pos + 2)..Len(code) : CommentCloses(i)}
<1>4. CASE ends = {}
  <2>1. Fault(Flush)
    BY <1>4 DEF Comment
  <2> QED BY <1>1, <1>2, <1>3, <2>1, FaultHolds
<1>5. CASE ends # {}
  <2>1. ends \subseteq Nat
    BY <1>1
  <2>2. PICK j \in ends : \A e \in ends : j <= e
    BY <1>5, <2>1, LeastNatural
  <2>3. PICK l : l = Min(ends)
    OBVIOUS
  <2>4. l \in ends
    BY <2>2, <2>3 DEF Min
  <2>5. PICK x : x = l + 1
    OBVIOUS
  <2>6. PICK y : y = l + 2
    OBVIOUS
  <2>7. PICK q : q = IF At(y) = "+" THEN l + 3 ELSE AfterNewline(y)
    OBVIOUS
  <2>8. /\ Goto("text", q, Flush)
        /\ consumed' = consumed \cup pos..(IF At(y) = "+" THEN y ELSE x)
        /\ atLineStart' = (At(y) # "+" /\ At(y) = NL)
    BY <1>5, <2>3, <2>5, <2>6, <2>7 DEF Comment
  <2>9. l \in (pos + 2)..Len(code) /\ At(x) = "}" /\ CommentCloses(l)
    BY <2>4, <2>5 DEF CommentCloses
  <2> HIDE DEF ends
  <2>10. x + 1 = y /\ l + 3 = y + 1 /\ l \in Nat /\ pos < x /\ x \in Nat
    <3>1. l \in Nat /\ pos < l
      <4>1. l \in (pos + 2)..Len(code)
        BY <2>9
      <4>2. Len(code) \in Nat
        BY <1>1
      <4> QED BY <1>3, <4>1, <4>2, InRange
    <3> QED BY <1>3, <2>5, <2>6, <3>1
  <2>11. x + 1 \in 1..n
    <3>1. At(x) # "eof"
      BY <2>9
    <3> QED BY <1>1, <1>2, <3>1, NextTo
  <2>12. y \in 1..n /\ y \in pos..n /\ y \in Nat
    BY <1>2, <1>3, <2>10, <2>11
  <2>13. /\ AfterNewline(y) \in y..n
         /\ At(y) = "+" => y + 1 \in y..n
         /\ At(y) = NL => AfterNewline(y) = y + 1
    <3>1. AfterNewline(y) \in y..n
      BY <1>1, <1>2, <2>12, AfterDoors
    <3>2. At(y) = "+" => y + 1 \in y..n
      BY <1>1, <1>2, NextTo
    <3> QED BY <3>1, <3>2 DEF AfterNewline
  <2>14. q \in y..n
    BY <2>7, <2>10, <2>13
  <2>15. q \in 1..n /\ q \in pos..n /\ q \in Nat /\ pos <= q
    <3>1. q \in pos..n /\ pos \in Nat
      BY <1>2, <1>3, <2>12, <2>14, Onwards
    <3> QED BY <1>3, <3>1
  <2>16. Good(Flush, q, consumed')
    <3>1. consumed \subseteq consumed'
      BY <2>8
    <3>2. ASSUME NEW k \in pos..(q - 1) PROVE k \in consumed' \/ AfterComment(k, consumed')
      <4>1. CASE At(y) = "+"
        <5>1. q = y + 1
          BY <2>7, <2>10, <4>1
        <5>2. k \in pos..y
          BY <1>3, <2>12, <5>1
        <5> QED BY <2>8, <4>1, <5>2
      <4>2. CASE At(y) # "+" /\ At(y) # NL
        <5>1. q = y
          BY <2>7, <4>2 DEF AfterNewline
        <5>2. k \in pos..x
          BY <1>3, <2>10, <2>12, <5>1
        <5> QED BY <2>8, <4>2, <5>2
      <4>3. CASE At(y) = NL /\ At(y) # "+"
        <5>1. q = y + 1
          BY <2>7, <2>13, <4>3
        <5>2. k \in pos..x \/ k = y
          BY <1>3, <2>10, <2>12, <5>1
        <5>3. y - 1 = x /\ y - 2 = l /\ x \in pos..x
          BY <1>3, <2>5, <2>6, <2>10
        <5>4. AfterComment(y, consumed')
          BY <2>8, <2>9, <4>3, <5>3 DEF AfterComment
        <5> QED BY <2>8, <4>3, <5>2, <5>4
      <4> QED BY <4>1, <4>2, <4>3
    <3> QED BY <1>1, <1>3, <2>15, <3>1, <3>2, GoodSkip
  <2>17. ASSUME atLineStart' PROVE LineOpen(q)
    <3>1. At(y) = NL /\ At(y) # "+"
      BY <2>8, <2>17
    <3>2. q = y + 1
      BY <2>7, <2>13, <3>1
    <3>3. q - 1 = y
      BY <2>12, <3>2
    <3> QED BY <2>15, <3>1, <3>3, NewLine
  <2> QED BY <1>1, <1>2, <2>8, <2>15, <2>16, <2>17, GotoHolds
<1> QED BY <1>4, <1>5

LEMMA WordBytesRun ==
  ASSUME code \in Seq(Bytes), NEW i \in 1..(Len(code) + 1)
  PROVE  RunEnd(i, WordBytes) \in i..(Len(code) + 1)
<1>1. "eof" \notin WordBytes
  BY DEF WordBytes
<1> QED BY <1>1, RunEnds

LEMMA StatementHolds == ASSUME LexInv, Statement PROVE LexInv'
<1>1. At(pos) = "@" /\ InText /\ atLineStart
  BY DEF Statement, PeekStatement
<1>2. code \in Seq(Bytes)
  BY <1>1, TextState
<1>3. pos \in Nat /\ pos + 1 \in 1..(Len(code) + 1) /\ pos < pos + 1
  <2>1. At(pos) # "eof"
    BY <1>1
  <2>2. pos \in 1..Len(code) /\ pos + 1 \in 1..(Len(code) + 1)
    BY <1>2, <2>1, NextTo
  <2> QED BY <2>2
<1>4. PICK j : j = RunEnd(pos + 1, WordBytes)
  OBVIOUS
<1>5. j \in (pos + 1)..(Len(code) + 1)
  BY <1>2, <1>3, <1>4, WordBytesRun
<1>6. j \in Nat /\ pos < j /\ pos <= j /\ j \in 1..(Len(code) + 1)
  BY <1>3, <1>5
<1>7. Goto("head", j, Append(FlushBeforeStatement, Tok("STMT", pos, j))) /\ consumed' = consumed
  BY <1>4 DEF Statement
<1>8. "STMT" \in Kinds \cup Bytes /\ "" \in CloseTrims \cup {""}
  BY DEF Kinds
<1>9. PICK tok : tok = Tok("STMT", pos, j)
  OBVIOUS
<1>10. tok \in Token /\ tok.k = "STMT" /\ tok.at = From(pos, j)
  BY <1>3, <1>6, <1>8, <1>9, TokenIs
<1>11. Good(Append(FlushBeforeStatement, tok), j, consumed)
  BY <1>1, <1>6, <1>10, DoorGood
<1> QED BY <1>2, <1>6, <1>7, <1>9, <1>11, GotoHolds

-----------------------------------------------------------------------------
(* scanCode *)

LEMMA CodeHolds ==
  ASSUME LexInv, mode \in {"interp", "head"}, code' = code, mode' = mode, buf' = buf, lineMark' = lineMark,
         NEW r \in 1..(Len(code) + 1), pos' = r, Good(out', r, consumed')
  PROVE  LexInv'
<1>1. /\ code \in Seq(Bytes) /\ mode \in {"interp", "head"}
      /\ buf = <<>> /\ lineMark \in 0..Len(buf)
  BY DEF LexInv, Holds
<1>2. r \in Nat \ {0}
  OBVIOUS
<1>3. TextGood(out', <<>>, r, consumed')
  BY <1>2, GoodText
<1>4. Holds(r, mode, buf, lineMark, atLineStart', out', consumed')
  BY <1>1, <1>3 DEF Holds
<1> QED BY <1>1, <1>4, HoldsNext

LEMMA CodeBlankHolds == ASSUME LexInv, CodeBlank PROVE LexInv'
<1>1. mode \in {"interp", "head"} /\ At(pos) # "eof"
  BY DEF CodeBlank, InCode, NL
<1>2. Good(out, pos, consumed) /\ code \in Seq(Bytes) /\ pos \in 1..(Len(code) + 1)
  BY <1>1, CodeState
<1>3. PICK r : r = pos'
  OBVIOUS
<1>4. r \in pos..(Len(code) + 1)
  <2>1. pos + 1 \in pos..(Len(code) + 1)
    BY <1>1, <1>2, NextTo
  <2>2. LineEnd(pos) \in pos..(Len(code) + 1)
    BY <1>2, LineEnds
  <2> QED BY <1>3, <2>1, <2>2 DEF CodeBlank
<1>5. r \in Nat /\ pos \in Nat \ {0} /\ pos <= r /\ r \in 1..(Len(code) + 1)
  <2>1. Len(code) \in Nat
    BY <1>2
  <2> HIDE <1>1
  <2> QED BY <1>2, <1>4, <2>1
<1>6. consumed' = consumed \cup pos..(r - 1) /\ out' = out
  BY <1>3 DEF CodeBlank
<1>7. consumed \subseteq consumed' /\ \A k \in pos..(r - 1) : k \in consumed'
  BY <1>6
<1>8. Good(out', r, consumed')
  BY <1>2, <1>5, <1>6, <1>7, GoodSkip
<1>9. code' = code /\ mode' = mode /\ buf' = buf /\ lineMark' = lineMark
  BY DEF CodeBlank
<1> QED BY <1>1, <1>3, <1>5, <1>8, <1>9, CodeHolds

(* A token right after what was read, no statement and no close. *)
LEMMA GoodPlain ==
  ASSUME NEW p \in Nat \ {0}, NEW r \in Nat, p <= r, NEW toks, NEW gone, Good(toks, p, gone),
         NEW kind \in Kinds \cup Bytes, kind \notin {"STMT", "BLOCK_CLOSE"}, kind \in Marks => p < r,
         NEW t \in CloseTrims \cup {""}
  PROVE  /\ Good(Append(toks, Trimmed(kind, p, r, t)), r, gone)
         /\ Good(Append(toks, Tok(kind, p, r)), r, gone)
<1>1. (\A k \in p..(p - 1) : FALSE) /\ p <= p
  <2>1. p \in Nat
    OBVIOUS
  <2> QED BY <2>1, NoneBetween, Zenon
<1>2. \A u \in CloseTrims \cup {""} : Good(Append(toks, Trimmed(kind, p, r, u)), r, gone)
  BY <1>1, GoodToken
<1> QED BY <1>2, PlainToken

LEMMA NumberEnds ==
  ASSUME code \in Seq(Bytes), NEW i \in 1..(Len(code) + 1)
  PROVE  NumberEnd(i) \in i..(Len(code) + 1)
<1>1. PICK j : j = RunEnd(i, {"1"})
  OBVIOUS
<1>2. "eof" \notin {"1"}
  OBVIOUS
<1>3. j \in i..(Len(code) + 1)
  BY <1>1, <1>2, RunEnds
<1>4. i \in Nat /\ j \in Nat /\ Len(code) + 1 \in Nat /\ j \in 1..(Len(code) + 1)
  BY <1>3
<1>5. ASSUME At(j) = "." PROVE RunEnd(j + 1, {"1"}) \in i..(Len(code) + 1)
  <2>1. At(j) # "eof"
    BY <1>5
  <2>2. j + 1 \in 1..(Len(code) + 1) /\ j + 1 \in j..(Len(code) + 1)
    BY <2>1, NextTo
  <2>3. RunEnd(j + 1, {"1"}) \in (j + 1)..(Len(code) + 1)
    BY <1>2, <2>2, RunEnds
  <2>4. j + 1 \in i..(Len(code) + 1)
    BY <1>3, <1>4, <2>2, Onwards
  <2> HIDE <1>5
  <2> QED BY <1>4, <2>3, <2>4, Onwards
<1> QED BY <1>1, <1>3, <1>5 DEF NumberEnd

LEMMA StringClosed ==
  ASSUME code \in Seq(Bytes), NEW p \in Nat, p + 1 \in 1..(Len(code) + 1), NEW q
  PROVE  StringClose(p + 1, q) + 1 \in Nat /\ p <= StringClose(p + 1, q) + 1
<1>1. StringClose(p + 1, q) \in (p + 1)..(Len(code) + 1)
  BY StringEnds DEF StringClose
<1> QED BY <1>1

LEMMA CodeTokenHolds == ASSUME LexInv, CodeToken PROVE LexInv'
<1>1. mode \in {"interp", "head"} /\ At(pos) # "eof"
  BY DEF CodeToken, InCode
<1>2. Good(out, pos, consumed) /\ code \in Seq(Bytes) /\ pos \in 1..(Len(code) + 1)
  BY <1>1, CodeState
<1>3. PICK c : c = At(pos)
  OBVIOUS
<1>4. c \in Bytes /\ c \notin Kinds
  BY <1>1, <1>2, <1>3, AtBytes, InputsAssumption
<1>5. pos \in Nat \ {0} /\ pos + 1 \in 1..(Len(code) + 1) /\ pos + 1 \in pos..(Len(code) + 1)
  <2>1. pos \in 1..Len(code) /\ pos + 1 \in 1..(Len(code) + 1) /\ pos + 1 \in pos..(Len(code) + 1)
    BY <1>1, <1>2, NextTo
  <2> QED BY <2>1
<1>6. PICK j : j = CASE c \in Quotes -> StringClose(pos + 1, c) + 1
                     [] c = "1" -> NumberEnd(pos)
                     [] c \in WordBytes \ {"1"} -> RunEnd(pos, WordBytes)
                     [] OTHER -> pos + 1
  OBVIOUS
<1>7. PICK n \in Nat : n = Len(code) + 1
  BY <1>2
<1>8. j \in Nat /\ pos <= j
  <2>1. \A x \in pos..n : x \in Nat /\ pos <= x
    BY <1>5, <1>7
  <2>2. NumberEnd(pos) \in pos..n
    BY <1>2, <1>7, NumberEnds
  <2>3. RunEnd(pos, WordBytes) \in pos..n
    BY <1>2, <1>7, WordBytesRun
  <2>4. StringClose(pos + 1, c) + 1 \in Nat /\ pos <= StringClose(pos + 1, c) + 1
    BY <1>2, <1>5, StringClosed
  <2>5. pos + 1 \in pos..n
    BY <1>5, <1>7
  <2>6. Quotes \cap WordBytes = {}
    BY DEF Quotes, WordBytes
  <2> QED BY <1>6, <2>1, <2>2, <2>3, <2>4, <2>5, <2>6
<1>9. IF j > n THEN Fault(out)
      ELSE /\ pos' = j /\ out' = Append(out, Tok(IF c \in WordBytes THEN "NAME" ELSE c, pos, j))
           /\ UNCHANGED <<code, mode, buf, lineMark, atLineStart, consumed>>
  BY <1>3, <1>6, <1>7 DEF CodeToken
<1>10. CASE j > n
  <2>1. Fault(out)
    BY <1>9, <1>10
  <2> QED BY <1>2, <2>1, FaultHolds
<1>11. CASE ~ (j > n)
  <2>1. PICK kind : kind = IF c \in WordBytes THEN "NAME" ELSE c
    OBVIOUS
  <2>2. kind \in Kinds \cup Bytes /\ kind \notin {"STMT", "BLOCK_CLOSE"} \cup Marks /\ "" \in CloseTrims \cup {""}
    BY <1>4, <2>1 DEF Kinds, Marks
  <2>3. Good(Append(out, Tok(kind, pos, j)), j, consumed)
    BY <1>2, <1>5, <1>8, <2>2, GoodPlain
  <2>4. j \in 1..(Len(code) + 1)
    BY <1>5, <1>7, <1>8, <1>11
  <2>5. /\ pos' = j /\ out' = Append(out, Tok(kind, pos, j))
        /\ code' = code /\ mode' = mode /\ buf' = buf /\ lineMark' = lineMark /\ consumed' = consumed
    BY <1>9, <1>11, <2>1
  <2>6. Good(out', j, consumed')
    BY <2>3, <2>5
  <2> QED BY <1>1, <2>4, <2>5, <2>6, CodeHolds
<1> QED BY <1>10, <1>11

LEMMA CodeFaultHolds == ASSUME LexInv, CodeFault PROVE LexInv'
<1>1. mode \in {"interp", "head"} /\ Fault(out)
  BY DEF CodeFault, InCode
<1>2. Good(out, pos, consumed) /\ code \in Seq(Bytes) /\ pos \in 1..(Len(code) + 1)
  BY <1>1, CodeState
<1> QED BY <1>1, <1>2, FaultHolds

-----------------------------------------------------------------------------
(* Doors that close *)

LEMMA CloseInterpHolds == ASSUME LexInv, CloseInterp PROVE LexInv'
<1>1. mode \in {"interp", "head"}
  BY DEF CloseInterp
<1>2. Good(out, pos, consumed) /\ code \in Seq(Bytes) /\ pos \in 1..(Len(code) + 1)
  BY <1>1, CodeState
<1>3. PICK x : x = AfterTrim(pos)
  OBVIOUS
<1>4. PICK y : y = x + 1
  OBVIOUS
<1>5. PICK j : j = x + 2
  OBVIOUS
<1>6. TrimAt(pos) \in CloseTrims \cup {""}
  BY <1>2, AfterDoors
<1>7. pos \in Nat \ {0} /\ x \in Nat /\ pos <= x /\ Len(code) + 1 \in Nat
  <2>1. x \in pos..(Len(code) + 1)
    BY <1>2, <1>3, AfterDoors
  <2> QED BY <1>2, <2>1
<1>8. j = y + 1 /\ pos <= y
  BY <1>4, <1>5, <1>7
<1>9. At(y) # "eof"
  BY <1>3, <1>4 DEF CloseInterp, Stops, InterpCloses
<1>10. y \in Nat /\ j \in 1..(Len(code) + 1)
  BY <1>2, <1>8, <1>9, NextTo
<1>11. j \in Nat /\ pos < j /\ pos <= j
  BY <1>7, <1>8, <1>10
<1>12. /\ Goto("text", j, Append(out, Trimmed("CLOSE_INTERP", pos, j, TrimAt(pos))))
       /\ atLineStart' = FALSE /\ consumed' = consumed
  BY <1>3, <1>5 DEF CloseInterp
<1>13. "CLOSE_INTERP" \in Kinds \cup Bytes /\ "CLOSE_INTERP" \notin {"STMT", "BLOCK_CLOSE"}
  BY DEF Kinds
<1>14. Good(Append(out, Trimmed("CLOSE_INTERP", pos, j, TrimAt(pos))), j, consumed)
  BY <1>2, <1>6, <1>7, <1>11, <1>13, GoodPlain
<1> QED BY <1>2, <1>10, <1>12, <1>14, GotoHolds

(* A newline after a door begins a line. *)
LEMMA NewlineAfter ==
  ASSUME code \in Seq(Bytes), NEW j \in 1..(Len(code) + 1)
  PROVE  /\ AfterNewline(j) \in 1..(Len(code) + 1) /\ j <= AfterNewline(j)
         /\ \A k \in j..(AfterNewline(j) - 1) : k = j /\ At(j) = NL
         /\ At(j) = NL => LineOpen(AfterNewline(j))
<1>1. AfterNewline(j) \in j..(Len(code) + 1) /\ \A k \in j..(AfterNewline(j) - 1) : At(k) = NL
  BY AfterDoors
<1>2. PICK i : i = AfterNewline(j)
  OBVIOUS
<1>3. j \in Nat \ {0} /\ i \in Nat /\ j <= i /\ i \in 1..(Len(code) + 1)
  <2>1. i \in j..(Len(code) + 1) /\ Len(code) \in Nat
    BY <1>1, <1>2
  <2> HIDE <1>1
  <2> QED BY <2>1
<1>4. \A k \in j..(i - 1) : k = j /\ At(j) = NL
  BY <1>2, <1>3 DEF AfterNewline
<1>5. ASSUME At(j) = NL PROVE LineOpen(i)
  <2>1. i = j + 1
    BY <1>2, <1>5 DEF AfterNewline
  <2>2. i - 1 = j
    BY <1>3, <2>1
  <2> QED BY <1>3, <1>5, <2>2, NewLine
<1> QED BY <1>2, <1>3, <1>4, <1>5

LEMMA LastNear ==
  ASSUME NEW toks \in Seq(Token), NEW k, EndsIn(toks, {"STMT", "BLOCK_OPEN", "BLOCK_CLOSE"}),
         Beside(k, toks[Len(toks)])
  PROVE  Near(toks, k)
<1>1. Len(toks) \in DOMAIN toks
  BY DEF EndsIn
<1> QED BY <1>1 DEF Near

(* The last token is this one and ends right before `q`.                     *)
LastIs(toks, kind, t, q) ==
  /\ toks \in Seq(Token) /\ EndsIn(toks, {kind})
  /\ toks[Len(toks)].trim = t /\ LastOf(toks[Len(toks)]) = q - 1

LEMMA LastAppended ==
  ASSUME NEW toks \in Seq(Token), NEW kind \in Kinds \cup Bytes, NEW p \in Nat, NEW q \in Nat, p < q,
         NEW t \in CloseTrims \cup {""}
  PROVE  LastIs(Append(toks, Trimmed(kind, p, q, t)), kind, t, q)
<1>0. p <= q
  BY Lesser, Zenon
<1>1. PICK tok : tok = Trimmed(kind, p, q, t)
  OBVIOUS
<1>2. tok \in Token /\ tok.k = kind /\ tok.at = From(p, q) /\ tok.trim = t
  <2>1. /\ Trimmed(kind, p, q, t) \in Token /\ Trimmed(kind, p, q, t).k = kind
        /\ Trimmed(kind, p, q, t).at = From(p, q)
    BY <1>0, TrimmedIs, ZenonT(30)
  <2>2. Trimmed(kind, p, q, t).trim = t
    BY DEF Trimmed
  <2> QED BY <1>1, <2>1, <2>2, Zenon
<1>3. LastOf(tok) = q - 1
  <2>1. From(p, q)[Len(From(p, q))] = q - 1
    BY <1>0, FromRange, Zenon
  <2> QED BY <1>2, <2>1, Zenon DEF LastOf
<1>4. PICK more : more = Append(toks, tok)
  OBVIOUS
<1>5. more \in Seq(Token) /\ more # <<>> /\ more[Len(more)] = tok
  BY <1>2, <1>4, Appended, ZenonT(60)
<1>6. LastIs(more, kind, t, q)
  BY <1>2, <1>3, <1>5, Zenon DEF LastIs, EndsIn
<1> QED BY <1>1, <1>4, <1>6, Zenon

(* The newline after the brace that opens a body. *)
LEMMA GoodAfterOpen ==
  ASSUME code \in Seq(Bytes), NEW j \in 1..(Len(code) + 1), NEW toks, NEW gone, Good(toks, j, gone),
         NEW t, t # "+", LastIs(toks, "BLOCK_OPEN", t, j)
  PROVE  /\ AfterNewline(j) \in 1..(Len(code) + 1) /\ Good(toks, AfterNewline(j), gone)
         /\ At(j) = NL => LineOpen(AfterNewline(j))
<1>1. PICK i : i = AfterNewline(j)
  OBVIOUS
<1>2. /\ i \in 1..(Len(code) + 1) /\ j <= i
      /\ \A k \in j..(i - 1) : k = j /\ At(j) = NL
      /\ At(j) = NL => LineOpen(i)
  BY <1>1, NewlineAfter
<1>3. ASSUME At(j) = NL PROVE Near(toks, j)
  <2>1. AfterOpen(j, toks[Len(toks)])
    BY <1>3 DEF AfterOpen, LastIs, EndsIn
  <2> QED BY <2>1, LastNear DEF Beside, LastIs, EndsIn
<1>4. j \in Nat \ {0} /\ i \in Nat
  BY <1>2
<1>5. Good(toks, i, gone)
  BY <1>2, <1>3, <1>4, GoodSkip
<1> QED BY <1>1, <1>2, <1>5

LEMMA OpenBodyHolds == ASSUME LexInv, OpenBody PROVE LexInv'
<1>1. mode \in {"interp", "head"} /\ At(pos) # "eof"
  BY DEF OpenBody
<1>2. Good(out, pos, consumed) /\ code \in Seq(Bytes) /\ pos \in 1..(Len(code) + 1)
  BY <1>1, CodeState
<1>3. pos \in Nat \ {0} /\ pos \in Nat /\ pos + 1 \in 1..(Len(code) + 1)
  <2>1. pos \in 1..Len(code) /\ pos + 1 \in 1..(Len(code) + 1)
    BY <1>1, <1>2, NextTo
  <2> QED BY <2>1
<1>4. PICK j : j = AfterTrim(pos + 1)
  OBVIOUS
<1>5. PICK t : t = TrimAt(pos + 1)
  OBVIOUS
<1>6. t \in CloseTrims \cup {""}
  BY <1>2, <1>3, <1>5, AfterDoors
<1>7. j \in Nat /\ pos < j /\ pos <= j /\ j \in 1..(Len(code) + 1)
  <2>1. Len(code) \in Nat
    BY <1>2
  <2>2. j \in (pos + 1)..(Len(code) + 1)
    BY <1>2, <1>3, <1>4, AfterDoors
  <2> QED BY <1>3, <2>1, <2>2
<1>8. PICK toks : toks = Append(out, Trimmed("BLOCK_OPEN", pos, j, t))
  OBVIOUS
<1>9. Good(toks, j, consumed) /\ LastIs(toks, "BLOCK_OPEN", t, j)
  <2>1. "BLOCK_OPEN" \in Kinds \cup Bytes /\ "BLOCK_OPEN" \notin {"STMT", "BLOCK_CLOSE"}
    BY DEF Kinds
  <2>2. out \in Seq(Token)
    BY <1>2 DEF Good, Laid
  <2>3. Good(toks, j, consumed)
    BY <1>2, <1>3, <1>6, <1>7, <1>8, <2>1, GoodPlain
  <2> QED BY <1>3, <1>6, <1>7, <1>8, <2>1, <2>2, <2>3, LastAppended
<1>10. PICK i : i = IF t = "+" THEN j ELSE AfterNewline(j)
  OBVIOUS
<1>11. Goto("text", i, toks) /\ atLineStart' = (t # "+" /\ At(j) = NL) /\ consumed' = consumed
  BY <1>4, <1>5, <1>8, <1>10 DEF OpenBody
<1>12. i \in 1..(Len(code) + 1) /\ Good(toks, i, consumed) /\ (atLineStart' => LineOpen(i))
  <2>1. CASE t = "+"
    BY <1>7, <1>9, <1>10, <1>11, <2>1
  <2>2. CASE t # "+"
    <3>1. /\ AfterNewline(j) \in 1..(Len(code) + 1) /\ Good(toks, AfterNewline(j), consumed)
          /\ At(j) = NL => LineOpen(AfterNewline(j))
      BY <1>2, <1>7, <1>9, <2>2, GoodAfterOpen
    <3> QED BY <1>10, <1>11, <2>2, <3>1
  <2> QED BY <2>1, <2>2
<1> QED BY <1>2, <1>11, <1>12, GotoHolds

LEMMA EndStatementHolds == ASSUME LexInv, EndStatement PROVE LexInv'
<1>1. mode \in {"interp", "head"}
  BY DEF EndStatement
<1>2. Good(out, pos, consumed) /\ code \in Seq(Bytes) /\ pos \in 1..(Len(code) + 1)
  BY <1>1, CodeState
<1>3. PICK i : i = AfterNewline(pos)
  OBVIOUS
<1>4. i \in 1..(Len(code) + 1) /\ pos <= i /\ (At(pos) = NL => LineOpen(i))
  BY <1>2, <1>3, NewlineAfter
<1>5. PICK toks : toks = Append(out, Tok("STMT_END", pos, i))
  OBVIOUS
<1>6. Good(toks, i, consumed)
  <2>1. "STMT_END" \in Kinds \cup Bytes /\ "STMT_END" \notin {"STMT", "BLOCK_CLOSE"} \cup Marks
    BY DEF Kinds, Marks
  <2>2. pos \in Nat \ {0} /\ i \in Nat /\ "" \in CloseTrims \cup {""}
    BY <1>2, <1>4
  <2> QED BY <1>2, <1>4, <1>5, <2>1, <2>2, GoodPlain
<1>7. Goto("text", i, toks) /\ atLineStart' = (At(pos) = NL) /\ consumed' = consumed
  BY <1>3, <1>5 DEF EndStatement
<1> QED BY <1>2, <1>4, <1>6, <1>7, GotoHolds

LEMMA BlanksEnd ==
  ASSUME code \in Seq(Bytes), NEW i \in 1..(Len(code) + 1)
  PROVE  /\ RunEnd(i, {" "}) \in i..(Len(code) + 1) /\ At(RunEnd(i, {" "})) # " "
         /\ \A k \in i..(RunEnd(i, {" "}) - 1) : At(k) = " "
<1>1. "eof" \notin {" "}
  OBVIOUS
<1> QED BY <1>1, RunEnds

(* The blank rest of a line after a close, and its newline. *)
LEMMA GoodTail ==
  ASSUME code \in Seq(Bytes), NEW q \in 1..(Len(code) + 1), NEW toks, NEW gone, Good(toks, q, gone),
         NEW t, t # "+", LastIs(toks, "BLOCK_CLOSE", t, q)
  PROVE  /\ AfterNewline(AfterTrailing(q)) \in 1..(Len(code) + 1)
         /\ Good(toks, AfterNewline(AfterTrailing(q)), gone)
<1>1. PICK e : e = AfterTrailing(q)
  OBVIOUS
<1>2. PICK j : j = RunEnd(q, {" "})
  OBVIOUS
<1>3. PICK i : i = AfterNewline(e)
  OBVIOUS
<1>4. j \in q..(Len(code) + 1) /\ At(j) # " " /\ \A k \in q..(j - 1) : At(k) = " "
  BY <1>2, BlanksEnd
<1>5. q \in Nat \ {0} /\ q \in Nat /\ j \in Nat /\ q <= j /\ j \in 1..(Len(code) + 1)
  <2>1. Len(code) \in Nat
    OBVIOUS
  <2>2. j \in q..(Len(code) + 1)
    BY <1>4
  <2> HIDE <1>4
  <2> QED BY <2>1, <2>2
<1>6. CASE At(j) \in {NL, "eof"}
  <2>1. e = j
    BY <1>1, <1>2, <1>6 DEF AfterTrailing
  <2>2. /\ i \in 1..(Len(code) + 1) /\ j <= i
        /\ \A k \in j..(i - 1) : k = j
    BY <1>3, <1>5, <2>1, NewlineAfter
  <2>3. PICK last : last = toks[Len(toks)]
    OBVIOUS
  <2>4. last.k = "BLOCK_CLOSE" /\ last.trim # "+" /\ LastOf(last) = q - 1
    BY <2>3 DEF LastIs, EndsIn
  <2>5. ASSUME NEW k \in q..(i - 1) PROVE Near(toks, k)
    <3>1. LastOf(last) < k /\ k <= j /\ LastOf(last) + 1 = q
      BY <1>5, <2>2, <2>4
    <3>2. AfterClose(k, last)
      BY <1>2, <1>6, <2>4, <3>1 DEF AfterClose
    <3> QED BY <2>3, <3>2, LastNear DEF Beside, LastIs, EndsIn
  <2>6. i \in Nat /\ q <= i
    BY <1>5, <2>2
  <2> QED BY <1>1, <1>3, <1>5, <2>2, <2>5, <2>6, GoodSkip
<1>7. CASE At(j) \notin {NL, "eof"}
  <2>1. e = q
    BY <1>1, <1>2, <1>7 DEF AfterTrailing
  <2>2. At(q) # NL
    <3>1. CASE q = j
      BY <1>7, <3>1
    <3>2. CASE q # j
      <4>1. q \in q..(j - 1)
        BY <1>5, <3>2
      <4> QED BY <1>4, <4>1 DEF NL
    <3> QED BY <3>1, <3>2
  <2>3. i = q
    BY <1>3, <2>1, <2>2 DEF AfterNewline
  <2> QED BY <1>1, <1>3, <1>5, <2>3
<1> QED BY <1>6, <1>7

(* Where a line may start: two bytes of a close, or a word, past a door. *)
LEMMA DoorState ==
  ASSUME LexInv, InText, atLineStart, At(pos) = "@"
  PROVE  /\ code \in Seq(Bytes) /\ pos \in Nat \ {0} /\ pos + 1 \in 1..(Len(code) + 1)
         /\ Len(code) + 1 \in Nat /\ FlushBeforeStatement \in Seq(Token)
<1>1. code \in Seq(Bytes)
  BY TextState
<1>2. At(pos) # "eof"
  OBVIOUS
<1>3. pos \in 1..Len(code) /\ pos + 1 \in 1..(Len(code) + 1)
  BY <1>1, <1>2, NextTo
<1>4. pos \in Nat \ {0} /\ Len(code) + 1 \in Nat
  BY <1>1, <1>3
<1>5. lineMark \in 0..Len(buf) /\ TextGood(out, buf, pos, consumed)
  BY DEF LexInv, Holds, InText
<1>6. FlushBeforeStatement = Flushed(out, buf, lineMark)
  BY DEF Flushed, FlushBeforeStatement
<1>7. Laid(Flushed(out, buf, lineMark), pos)
  BY <1>4, <1>5, TextFlushed
<1> QED BY <1>1, <1>3, <1>4, <1>6, <1>7 DEF Laid

LEMMA Within ==
  ASSUME NEW n \in Nat, NEW p \in Nat \ {0}, NEW q \in p..n
  PROVE  q \in Nat \ {0} /\ p <= q /\ q \in 1..n
OBVIOUS

LEMMA InNext ==
  ASSUME NEW n \in Nat, NEW q \in Nat \ {0}, NEW o \in (q + 1)..n
  PROVE  o \in Nat \ {0} /\ q <= o /\ q < o /\ o \in 1..n
OBVIOUS

LEMMA InAfter ==
  ASSUME NEW n \in Nat, NEW e \in Nat \ {0}, NEW y \in 1..n, e < y, NEW c \in y..n
  PROVE  c \in Nat \ {0} /\ e <= c /\ e < c /\ c \in 1..n
OBVIOUS

LEMMA Between ==
  ASSUME NEW p \in Nat, NEW q \in Nat, NEW l \in Nat, NEW b \in Nat, p <= q, q <= l, l <= b
  PROVE  p <= b
OBVIOUS

LEMMA Split ==
  ASSUME NEW p \in Nat, NEW q \in Nat, NEW b \in Nat
  PROVE  \A k \in p..(b - 1) : k \in p..(q - 1) \/ k \in q..(b - 1)
OBVIOUS

LEMMA OneLong == ASSUME NEW x, NEW one, one = <<x>> PROVE Len(one) = 1 /\ one[1] = x
OBVIOUS

LEMMA OneOf ==
  ASSUME NEW S, NEW s \in Seq(S), NEW i \in 1..(Len(s) + 1), NEW j \in i..(Len(s) + 1), NEW x,
         SubSeq(s, i, j - 1) = <<x>>
  PROVE  j = i + 1 /\ i \in 1..Len(s) /\ s[i] = x
<1>1. PICK one : one = SubSeq(s, i, j - 1)
  OBVIOUS
<1>2. Len(one) = 1 /\ one[1] = x
  <2>1. one = <<x>>
    BY <1>1, Zenon
  <2> QED BY <2>1, OneLong, Zenon
<1>3. i \in Nat /\ j \in Nat /\ i <= j /\ Len(s) \in Nat
  OBVIOUS
<1>4. CASE i = j
  <2>1. SubSeq(s, i, j - 1) = <<>>
    BY <1>3, <1>4
  <2> QED BY <1>1, <1>2, <2>1
<1>5. CASE i # j
  <2>1. i <= j - 1 /\ j - 1 <= Len(s) /\ 1 <= i /\ 1 \in 1..(j - i) /\ (j - 1) - i + 1 = j - i
    BY <1>3, <1>5
  <2>2. Len(one) = j - i /\ one[1] = s[i + 1 - 1]
    BY <1>1, <2>1
  <2>3. j - i = 1 /\ i + 1 - 1 = i
    BY <1>2, <1>3, <2>2
  <2> QED BY <1>2, <1>3, <2>1, <2>2, <2>3
<1> QED BY <1>4, <1>5

(* A keyword is one byte. *)
LEMMA WordIs ==
  ASSUME code \in Seq(Bytes), NEW i \in 1..(Len(code) + 1), NEW x, Word(i) = <<x>>
  PROVE  /\ At(i) = x /\ i \in 1..Len(code)
         /\ RunEnd(i, WordBytes) = i + 1 /\ i + 1 \in 1..(Len(code) + 1)
<1>1. PICK j : j = RunEnd(i, WordBytes)
  OBVIOUS
<1>2. j \in i..(Len(code) + 1)
  BY <1>1, WordBytesRun
<1>3. SubSeq(code, i, j - 1) = <<x>>
  BY <1>1 DEF Word
<1>4. j = i + 1 /\ i \in 1..Len(code) /\ code[i] = x
  BY <1>2, <1>3, OneOf
<1>5. At(i) = x
  BY <1>4 DEF At
<1> QED BY <1>1, <1>2, <1>4, <1>5

LEMMA Later ==
  ASSUME NEW n \in Nat, NEW j \in 1..n, NEW q \in Nat \ {0}, NEW k \in q..(j - 1)
  PROVE  k \in 1..j /\ \A m \in k..(j - 1) : m \in q..(j - 1)
OBVIOUS

LEMMA CodeLength == ASSUME code \in Seq(Bytes) PROVE Len(code) \in Nat
OBVIOUS

(* The blanks before a door of its own line. *)
Blanks(q, j) == \A k \in q..(j - 1) : At(k) = " "

LEMMA BlanksBeside ==
  ASSUME code \in Seq(Bytes), NEW j \in 1..Len(code), At(j) \notin IndentBytes,
         NEW q \in Nat \ {0}, Blanks(q, j), NEW k \in q..(j - 1),
         NEW tok, tok.k \in {"STMT", "BLOCK_CLOSE"}, tok.at[1] = j
  PROVE  Beside(k, tok)
<1>1. Len(code) \in Nat
  BY CodeLength, Zenon
<1>2. k \in 1..j /\ \A m \in k..(j - 1) : m \in q..(j - 1)
  BY <1>1, Later
<1>3. Run(k, j) /\ InIndent(k)
  BY <1>2 DEF Run, InIndent, IndentBytes, Blanks
<1> QED BY <1>2, <1>3, IndentIsBeside

LEMMA BlockCloseHolds == ASSUME LexInv, BlockClose PROVE LexInv'
<1>1. At(pos) = "@" /\ InText /\ atLineStart
  BY DEF BlockClose, PeekBlockClose
<1>2. /\ code \in Seq(Bytes) /\ pos \in Nat \ {0} /\ pos + 1 \in 1..(Len(code) + 1)
      /\ Len(code) + 1 \in Nat /\ FlushBeforeStatement \in Seq(Token)
  BY <1>1, DoorState
<1>3. PICK x : x = pos + 1
  OBVIOUS
<1>4. PICK y : y = pos + 2
  OBVIOUS
<1>5. y = x + 1 /\ pos < y
  BY <1>2, <1>3, <1>4
<1>6. At(x) # "eof"
  BY <1>3 DEF BlockClose, PeekBlockClose
<1>7. y \in 1..(Len(code) + 1)
  BY <1>2, <1>5, <1>6, NextTo
<1>8. PICK q : q = AfterTrim(y)
  OBVIOUS
<1>9. PICK t : t = TrimAt(y)
  OBVIOUS
<1>10. t \in CloseTrims \cup {""}
  BY <1>2, <1>7, <1>9, AfterDoors
<1>11. q \in Nat \ {0} /\ pos < q /\ q \in 1..(Len(code) + 1) /\ q \in Nat /\ pos \in Nat /\ pos <= q
  <2>1. q \in y..(Len(code) + 1)
    BY <1>2, <1>7, <1>8, AfterDoors
  <2> QED BY <1>2, <1>5, <1>7, <2>1
<1>12. PICK closed : closed = Append(FlushBeforeStatement, Trimmed("BLOCK_CLOSE", pos, q, t))
  OBVIOUS
<1>13. Good(closed, q, consumed) /\ LastIs(closed, "BLOCK_CLOSE", t, q)
  <2>1. "BLOCK_CLOSE" \in Kinds \cup Bytes
    BY DEF Kinds
  <2>2. PICK tok : tok = Trimmed("BLOCK_CLOSE", pos, q, t)
    OBVIOUS
  <2>3. tok \in Token /\ tok.k = "BLOCK_CLOSE" /\ tok.at = From(pos, q)
    <3>1. pos \in Nat /\ q \in Nat /\ pos <= q
      BY <1>11
    <3> QED BY <1>10, <2>2, <3>1, CloseIs, Zenon
  <2>4. Good(closed, q, consumed)
    BY <1>1, <1>11, <1>12, <2>2, <2>3, DoorGood, ZenonT(30)
  <2>5. LastIs(closed, "BLOCK_CLOSE", t, q)
    BY <1>2, <1>10, <1>11, <1>12, <2>1, LastAppended
  <2> QED BY <2>4, <2>5
<1>14. consumed' = consumed
  BY DEF BlockClose
<1>15. PICK j : j = RunEnd(q, {" "})
  OBVIOUS
<1>16. CASE Word(j) = <<"else">>
  <2>1. PICK w : w = RunEnd(j, WordBytes)
    OBVIOUS
  <2>2. j \in q..(Len(code) + 1) /\ \A k \in q..(j - 1) : At(k) = " "
    BY <1>2, <1>11, <1>15, BlanksEnd
  <2>3. j \in Nat \ {0} /\ q <= j /\ j \in 1..(Len(code) + 1)
    BY <1>2, <1>11, <2>2, Within
  <2>4. At(j) = "else" /\ j \in 1..Len(code) /\ w = j + 1 /\ w \in 1..(Len(code) + 1)
    BY <1>2, <1>16, <2>1, <2>3, WordIs
  <2>5. j \in Nat /\ w \in Nat /\ j <= w /\ j < w
    BY <2>3, <2>4
  <2>6. "STMT" \in Kinds \cup Bytes /\ "STMT" \notin Marks /\ "" \in CloseTrims \cup {""} /\ EndsIn(closed, Ends)
    BY <1>13 DEF Kinds, Marks, Ends, EndsIn, LastIs
  <2>7. PICK tok : tok = Trimmed("STMT", j, w, "")
    OBVIOUS
  <2>8. tok.k \in {"STMT", "BLOCK_CLOSE"} /\ tok.at[1] = j
    <3>1. tok.k = "STMT" /\ tok.at = From(j, w)
      BY <2>5, <2>6, <2>7, TokenIs, ZenonT(60)
    <3>2. From(j, w)[1] = j
      BY <2>5, FromRange
    <3> QED BY <3>1, <3>2
  <2>9. \A k \in q..(j - 1) : Beside(k, tok)
    <3>1. At(j) \notin IndentBytes
      BY <2>4 DEF IndentBytes, Esc
    <3>2. code \in Seq(Bytes) /\ j \in 1..Len(code) /\ q \in Nat \ {0} /\ Blanks(q, j)
      BY <1>2, <1>11, <2>2, <2>4, Zenon DEF Blanks
    <3> QED BY <2>8, <3>1, <3>2, BlanksBeside
  <2>10. Good(Append(closed, Tok("STMT", j, w)), w, consumed)
    <3>1. Good(Append(closed, Trimmed("STMT", j, w, "")), w, consumed)
      BY <1>11, <1>13, <2>3, <2>5, <2>6, <2>7, <2>9, GoodToken
    <3> QED BY <3>1, PlainToken
  <2>11. Goto("head", w, Append(closed, Tok("STMT", j, w)))
    BY <1>4, <1>8, <1>9, <1>12, <1>15, <1>16, <2>1 DEF BlockClose
  <2> QED BY <1>2, <1>14, <2>4, <2>10, <2>11, GotoHolds
<1>17. CASE Word(j) # <<"else">>
  <2>1. PICK i : i = IF t = "+" THEN q ELSE AfterNewline(AfterTrailing(q))
    OBVIOUS
  <2>2. Goto("text", i, closed)
    BY <1>4, <1>8, <1>9, <1>12, <1>15, <1>17, <2>1 DEF BlockClose
  <2>3. i \in 1..(Len(code) + 1) /\ Good(closed, i, consumed)
    <3>1. CASE t = "+"
      BY <1>11, <1>13, <2>1, <3>1
    <3>2. CASE t # "+"
      <4>1. /\ AfterNewline(AfterTrailing(q)) \in 1..(Len(code) + 1)
            /\ Good(closed, AfterNewline(AfterTrailing(q)), consumed)
        BY <1>2, <1>11, <1>13, <3>2, GoodTail
      <4> QED BY <2>1, <3>2, <4>1
    <3> QED BY <3>1, <3>2
  <2>4. Ended(closed, 0)
    BY <1>13 DEF Ended, Ends, EndsIn, LastIs
  <2> QED BY <1>2, <1>14, <2>2, <2>3, <2>4, GotoHolds
<1> QED BY <1>16, <1>17

-----------------------------------------------------------------------------
(* Verbatim bodies *)

LEMMA TwoMore ==
  ASSUME NEW S, NEW s \in Seq(S), NEW x \in S, NEW y \in S
  PROVE  s \o <<x, y>> = Append(Append(s, x), y)
OBVIOUS

LEMMA BracedHolds ==
  ASSUME code \in Seq(Bytes), pos \in 1..(Len(code) + 1),
         NEW p \in 1..(Len(code) + 1), NEW head, Good(head, p, consumed),
         NEW q \in p..(Len(code) + 1), \A k \in p..(q - 1) : Near(head, k), q + 1 \in 1..(Len(code) + 1),
         VerbatimBraced(head, q)
  PROVE  LexInv'
<1>1. PICK n \in Nat : n = Len(code) + 1
  OBVIOUS
<1>2. p \in Nat \ {0} /\ q \in Nat \ {0} /\ p <= q /\ q + 1 \in 1..n /\ q \in 1..n
  <2>1. p \in Nat \ {0} /\ q \in p..n /\ q + 1 \in 1..n
    BY <1>1
  <2> QED BY <2>1, Within
<1>3. PICK o : o = AfterTrim(q + 1)
  OBVIOUS
<1>4. PICK t : t = TrimAt(q + 1)
  OBVIOUS
<1>5. t \in CloseTrims \cup {""} /\ o \in (q + 1)..n
  BY <1>1, <1>2, <1>3, <1>4, AfterDoors
<1>6. o \in Nat \ {0} /\ q <= o /\ q < o /\ o \in 1..n
  BY <1>2, <1>5, InNext
<1>7. PICK opened : opened = Append(head, Trimmed("BLOCK_OPEN", q, o, t))
  OBVIOUS
<1>8. Good(opened, o, consumed) /\ LastIs(opened, "BLOCK_OPEN", t, o)
  <2>1. "BLOCK_OPEN" \in Kinds \cup Bytes /\ "BLOCK_OPEN" \notin {"STMT", "BLOCK_CLOSE"}
    BY DEF Kinds
  <2>2. head \in Seq(Token)
    BY DEF Good, Laid
  <2>3. Good(opened, o, consumed)
    BY <1>2, <1>5, <1>6, <1>7, <2>1, GoodToken
  <2>4. q \in Nat /\ o \in Nat /\ q < o
    BY <1>2, <1>6
  <2>5. LastIs(opened, "BLOCK_OPEN", t, o)
    BY <1>5, <1>7, <2>1, <2>2, <2>4, LastAppended
  <2> QED BY <2>3, <2>5
<1>9. PICK b : b = IF t = "+" THEN o ELSE AfterNewline(o)
  OBVIOUS
<1>10. b \in Nat \ {0} /\ b \in 1..n /\ Good(opened, b, consumed)
  <2>1. b \in 1..n /\ Good(opened, b, consumed)
    <3>1. CASE t = "+"
      BY <1>6, <1>8, <1>9, <3>1
    <3>2. CASE t # "+"
      <4>1. AfterNewline(o) \in 1..(Len(code) + 1) /\ Good(opened, AfterNewline(o), consumed)
        BY <1>1, <1>6, <1>8, <3>2, GoodAfterOpen
      <4> QED BY <1>1, <1>9, <3>2, <4>1
    <3> QED BY <3>1, <3>2
  <2>2. b \in Nat \ {0}
    BY <2>1
  <2> QED BY <2>1, <2>2
<1>11. PICK e : e = VerbatimClose(b)
  OBVIOUS
<1>12. e \in b..n
  BY <1>1, <1>10, <1>11, VerbatimCloses
<1>13. e \in Nat \ {0} /\ b <= e /\ e \in 1..n
  BY <1>10, <1>12, Within
<1>14. CASE e > Len(code)
  <2>1. Fault(opened)
    BY <1>3, <1>4, <1>7, <1>9, <1>11, <1>14 DEF VerbatimBraced
  <2> QED BY <1>1, <1>6, <1>8, <2>1, FaultHolds
<1>15. CASE ~ (e > Len(code))
  <2>1. PICK y : y = e + 2
    OBVIOUS
  <2>2. PICK x : x = e + 1
    OBVIOUS
  <2>3. y = x + 1 /\ e < y /\ e <= Len(code)
    BY <1>1, <1>13, <1>15, <2>1, <2>2
  <2>4. At(x) # "eof"
    BY <1>1, <1>10, <1>11, <2>2, <2>3, VerbatimCloses
  <2>5. y \in 1..n
    BY <1>1, <2>3, <2>4, NextTo
  <2>6. PICK c : c = AfterTrim(y)
    OBVIOUS
  <2>7. PICK u : u = TrimAt(y)
    OBVIOUS
  <2>8. u \in CloseTrims \cup {""} /\ c \in y..n
    BY <1>1, <2>5, <2>6, <2>7, AfterDoors
  <2>9. c \in Nat \ {0} /\ e <= c /\ e < c /\ c \in 1..n
    BY <1>13, <2>3, <2>5, <2>8, InAfter
  <2>10. PICK body : body = Append(opened, Tok("VERBATIM", b, e))
    OBVIOUS
  <2>11. /\ "VERBATIM" \in Kinds \cup Bytes /\ "VERBATIM" \notin {"STMT", "BLOCK_CLOSE"} \cup Marks
         /\ "" \in CloseTrims \cup {""}
    BY DEF Kinds, Marks
  <2>12. Good(body, e, consumed) /\ EndsIn(body, {"VERBATIM"})
    <3>1. body = Append(opened, Trimmed("VERBATIM", b, e, ""))
      BY <2>10, PlainToken
    <3> QED BY <1>10, <1>13, <2>11, <3>1, TokenEnds
  <2>13. PICK closed : closed = Append(body, Trimmed("BLOCK_CLOSE", e, c, u))
    OBVIOUS
  <2>14. Good(closed, c, consumed) /\ LastIs(closed, "BLOCK_CLOSE", u, c)
    <3>1. "BLOCK_CLOSE" \in Kinds \cup Bytes /\ EndsIn(body, Ends)
      BY <2>12 DEF Kinds, Ends, EndsIn
    <3>2. Good(closed, c, consumed)
      BY <1>13, <2>8, <2>9, <2>12, <2>13, <3>1, TokenEnds
    <3>3. body \in Seq(Token) /\ e \in Nat /\ c \in Nat /\ e < c
      BY <1>13, <2>9, <2>12 DEF Good, Laid
    <3>4. LastIs(closed, "BLOCK_CLOSE", u, c)
      BY <2>8, <2>13, <3>1, <3>3, LastAppended
    <3> QED BY <3>2, <3>4
  <2>15. opened \o <<Tok("VERBATIM", b, e), Trimmed("BLOCK_CLOSE", e, c, u)>> = closed
    <3>1. opened \in Seq(Token) /\ Tok("VERBATIM", b, e) \in Token
      BY <1>10, <1>13, <2>11, TokenIs DEF Good, Laid
    <3>2. Trimmed("BLOCK_CLOSE", e, c, u) \in Token
      <4>1. "BLOCK_CLOSE" \in Kinds \cup Bytes
        BY DEF Kinds
      <4> QED BY <1>13, <2>8, <2>9, <4>1, TokenIs
    <3> QED BY <2>10, <2>13, <3>1, <3>2, TwoMore
  <2>16. PICK i : i = IF u = "+" THEN c ELSE AfterNewline(AfterTrailing(c))
    OBVIOUS
  <2>17. Goto("text", i, closed) /\ consumed' = consumed
    BY <1>3, <1>4, <1>7, <1>9, <1>11, <1>15, <2>1, <2>6, <2>7, <2>15, <2>16 DEF VerbatimBraced
  <2>18. i \in 1..n /\ Good(closed, i, consumed)
    <3>1. CASE u = "+"
      BY <2>9, <2>14, <2>16, <3>1
    <3>2. CASE u # "+"
      <4>1. /\ AfterNewline(AfterTrailing(c)) \in 1..(Len(code) + 1)
            /\ Good(closed, AfterNewline(AfterTrailing(c)), consumed)
        BY <1>1, <2>9, <2>14, <3>2, GoodTail
      <4> QED BY <1>1, <2>16, <3>2, <4>1
    <3> QED BY <3>1, <3>2
  <2>19. Ended(closed, 0)
    BY <2>14 DEF Ended, Ends, EndsIn, LastIs
  <2> QED BY <1>1, <2>17, <2>18, <2>19, GotoHolds
<1> QED BY <1>14, <1>15

LEMMA BodyIs ==
  ASSUME NEW b \in Nat, NEW e \in Nat, b <= e
  PROVE  /\ Tok("VERBATIM", b, e) \in Token /\ Tok("VERBATIM", b, e).k = "VERBATIM"
         /\ Tok("VERBATIM", b, e).at = From(b, e)
<1>1. "VERBATIM" \in Kinds \cup Bytes /\ "" \in CloseTrims \cup {""}
  BY DEF Kinds
<1> QED BY <1>1, TokenIs

LEMMA FencedHolds ==
  ASSUME code \in Seq(Bytes), pos \in 1..(Len(code) + 1),
         NEW p \in 1..(Len(code) + 1), NEW head, Good(head, p, consumed),
         NEW q \in p..(Len(code) + 1), \A k \in p..(q - 1) : Near(head, k),
         VerbatimFenced(head, q)
  PROVE  LexInv'
<1>1. PICK n \in Nat : n = Len(code) + 1
  OBVIOUS
<1>2. PICK fence : fence = RightTrimmed(q)
  OBVIOUS
<1>3. PICK l : l = LineEnd(q)
  OBVIOUS
<1>4. PICK b : b = AfterNewline(l)
  OBVIOUS
<1>5. PICK e : e = FenceLine(b, fence)
  OBVIOUS
<1>6. CASE fence = <<>> \/ e > Len(code)
  <2>1. Fault(head)
    BY <1>2, <1>3, <1>4, <1>5, <1>6 DEF VerbatimFenced
  <2> QED BY <2>1, FaultHolds
<1>7. CASE ~ (fence = <<>> \/ e > Len(code))
  <2>1. p \in Nat \ {0} /\ q \in Nat \ {0} /\ p <= q /\ q \in 1..n
    <3>1. p \in Nat \ {0} /\ q \in p..n
      BY <1>1
    <3> QED BY <3>1, Within
  <2>2. l \in q..n
    BY <1>1, <1>3, <2>1, LineEnds
  <2>3. l \in Nat \ {0} /\ q <= l /\ l \in 1..n
    BY <2>1, <2>2, Within
  <2>4. b \in l..n
    BY <1>1, <1>4, <2>3, AfterDoors
  <2>5. b \in Nat \ {0} /\ l <= b /\ b \in 1..n
    BY <2>3, <2>4, Within
  <2>6. e \in b..n
    BY <1>1, <1>5, <2>5, FenceLines
  <2>7. e \in Nat \ {0} /\ b <= e /\ e \in 1..n
    BY <2>5, <2>6, Within
  <2>8. PICK m : m = LineEnd(e)
    OBVIOUS
  <2>9. m \in e..n
    BY <1>1, <2>7, <2>8, LineEnds
  <2>10. m \in Nat \ {0} /\ e <= m /\ m \in 1..n
    BY <2>7, <2>9, Within
  <2>11. PICK i : i = AfterNewline(m)
    OBVIOUS
  <2>12. i \in m..n
    BY <1>1, <2>10, <2>11, AfterDoors
  <2>13. i \in Nat \ {0} /\ m <= i /\ i \in 1..n
    BY <2>10, <2>12, Within
  <2>14. e <= i /\ p <= b
    <3>1. e \in Nat /\ i \in Nat /\ m \in Nat /\ m <= m
      BY <2>7, <2>10, <2>13
    <3>2. e <= i
      BY <2>10, <2>13, <3>1, Between
    <3> QED BY <2>1, <2>3, <2>5, <3>2, Between
  <2>15. PICK tok : tok = Tok("VERBATIM", b, e)
    OBVIOUS
  <2>16. tok \in Token /\ tok.k = "VERBATIM" /\ tok.at = From(b, e) /\ "VERBATIM" \notin Marks
    <3>1. b \in Nat /\ e \in Nat /\ b <= e
      BY <2>5, <2>7
    <3>2. "VERBATIM" \notin Marks
      BY DEF Marks
    <3> QED BY <2>15, <3>1, <3>2, BodyIs, Zenon
  <2>17. PICK toks : toks = Append(head, tok)
    OBVIOUS
  <2>18. /\ Goto("text", i, toks)
         /\ consumed' = consumed \cup q..(b - 1) \cup e..(i - 1)
    BY <1>2, <1>3, <1>4, <1>5, <1>7, <2>8, <2>11, <2>15, <2>17 DEF VerbatimFenced
  <2>19. \A k \in p..(b - 1) : k \in consumed' \/ Near(head, k)
    <3>1. \A k \in p..(b - 1) : k \in p..(q - 1) \/ k \in q..(b - 1)
      BY <2>1, <2>5, Split
    <3> QED BY <2>18, <3>1
  <2>20. consumed \subseteq consumed' /\ \A k \in e..(i - 1) : k \in consumed'
    BY <2>18
  <2>21. Good(toks, e, consumed')
    BY <2>1, <2>5, <2>7, <2>14, <2>16, <2>17, <2>19, <2>20, GoodAppend
  <2>22. Good(toks, i, consumed')
    BY <2>7, <2>13, <2>14, <2>20, <2>21, GoodSkip
  <2>23. Ended(toks, 0)
    <3>1. head \in Seq(Token)
      BY DEF Good, Laid
    <3>2. toks # <<>> /\ toks[Len(toks)] = tok
      BY <2>16, <2>17, <3>1, Appended
    <3> QED BY <2>16, <3>2 DEF Ended, Ends, EndsIn
  <2> QED BY <1>1, <2>13, <2>18, <2>22, <2>23, GotoHolds
<1> QED BY <1>6, <1>7

LEMMA PastIt ==
  ASSUME NEW p \in Nat, NEW q \in Nat, NEW k \in p..(q - 1)
  PROVE  p - 1 < k /\ k < q /\ (p - 1) + 1 = p
OBVIOUS

(* The blanks between @verbatim and its body. *)
LEMMA HeadNear ==
  ASSUME code \in Seq(Bytes), NEW p \in Nat, NEW head, LastIs(head, "STMT", "", p), At(p - 1) = "verbatim",
         NEW q \in Nat, q = RunEnd(p, {" "}), NEW k \in p..(q - 1)
  PROVE  Near(head, k)
<1>1. PICK last : last = head[Len(head)]
  OBVIOUS
<1>2. last.k = "STMT" /\ LastOf(last) = p - 1
  BY <1>1 DEF LastIs, EndsIn
<1>3. p - 1 < k /\ k < q /\ (p - 1) + 1 = p
  BY PastIt, Zenon
<1>4. BeforeBody(k, last)
  BY <1>2, <1>3 DEF BeforeBody
<1> QED BY <1>1, <1>4, LastNear DEF Beside, LastIs, EndsIn

LEMMA VerbatimHolds == ASSUME LexInv, Verbatim PROVE LexInv'
<1>1. At(pos) = "@" /\ InText /\ atLineStart
  BY DEF Verbatim, PeekStatement
<1>2. /\ code \in Seq(Bytes) /\ pos \in Nat \ {0} /\ pos + 1 \in 1..(Len(code) + 1)
      /\ Len(code) + 1 \in Nat /\ FlushBeforeStatement \in Seq(Token)
  BY <1>1, DoorState
<1>3. PICK x : x = pos + 1
  OBVIOUS
<1>4. PICK p : p = pos + 2
  OBVIOUS
<1>5. p = x + 1 /\ pos < p /\ p - 1 = x
  BY <1>2, <1>3, <1>4
<1>6. Word(x) = <<"verbatim">>
  <2>1. Word(pos + 1) = <<"verbatim">>
    BY Zenon DEF Verbatim
  <2> QED BY <1>3, <2>1, Zenon
<1>7. At(x) = "verbatim" /\ p \in 1..(Len(code) + 1)
  BY <1>2, <1>3, <1>5, <1>6, WordIs
<1>8. PICK q : q = RunEnd(p, {" "})
  OBVIOUS
<1>9. q \in p..(Len(code) + 1)
  BY <1>2, <1>7, <1>8, BlanksEnd
<1>10. PICK head : head = Append(FlushBeforeStatement, Tok("STMT", pos, p))
  OBVIOUS
<1>11. IF At(q) = "{" THEN VerbatimBraced(head, q) ELSE VerbatimFenced(head, q)
  BY <1>4, <1>8, <1>10 DEF Verbatim
<1>12. p \in Nat /\ pos <= p /\ pos \in Nat /\ pos \in 1..(Len(code) + 1) /\ q \in Nat
  BY <1>2, <1>5, <1>7, <1>9
<1>13. Good(head, p, consumed) /\ LastIs(head, "STMT", "", p)
  <2>1. "STMT" \in Kinds \cup Bytes /\ "" \in CloseTrims \cup {""}
    BY DEF Kinds
  <2>2. PICK tok : tok = Tok("STMT", pos, p)
    OBVIOUS
  <2>3. tok \in Token /\ tok.k = "STMT" /\ tok.at = From(pos, p)
    BY <1>12, <2>1, <2>2, TokenIs
  <2>4. Good(head, p, consumed)
    BY <1>1, <1>5, <1>10, <1>12, <2>2, <2>3, DoorGood
  <2>5. tok = Trimmed("STMT", pos, p, "")
    BY <2>2, PlainToken
  <2>6. LastIs(head, "STMT", "", p)
    BY <1>2, <1>5, <1>10, <1>12, <2>1, <2>2, <2>5, LastAppended
  <2> QED BY <2>4, <2>6
<1>14. \A k \in p..(q - 1) : Near(head, k)
  BY <1>2, <1>5, <1>7, <1>8, <1>12, <1>13, HeadNear
<1>15. CASE At(q) = "{"
  <2>1. At(q) # "eof"
    BY <1>15
  <2>2. q + 1 \in 1..(Len(code) + 1)
    BY <1>2, <2>1, NextTo
  <2>3. VerbatimBraced(head, q)
    BY <1>11, <1>15
  <2> HIDE <1>15
  <2> QED BY <1>2, <1>7, <1>9, <1>12, <1>13, <1>14, <2>2, <2>3, BracedHolds
<1>16. CASE At(q) # "{"
  <2>1. VerbatimFenced(head, q)
    BY <1>11, <1>16
  <2> QED BY <1>2, <1>7, <1>9, <1>12, <1>13, <1>14, <2>1, FencedHolds
<1> QED BY <1>15, <1>16

-----------------------------------------------------------------------------
(* applyTrims *)

LEMMA LeftEnd ==
  ASSUME NEW s \in Seq(Nat), NEW S
  PROVE  LeftKept(s, S) \in 1..(Len(s) + 1) /\ \A m \in 1..(LeftKept(s, S) - 1) : At(s[m]) \in S
<1> DEFINE Halts(n) == n = Len(s) + 1 \/ At(s[n]) \notin S
           R == {n \in 1..(Len(s) + 1) : Halts(n)}
<1>0. PICK N \in Nat : N = Len(s)
  OBVIOUS
<1>1. Halts(N + 1) /\ \A n \in 1..N : n \in 1..(N + 1) /\ (~ Halts(n) => At(s[n]) \in S)
  BY <1>0
<1>2. LeftKept(s, S) = CHOOSE n \in 1..(Len(s) + 1) : Halts(n) /\ \A m \in 1..(n - 1) : At(s[m]) \in S
  BY DEF LeftKept
<1> HIDE DEF Halts
<1>3. N + 1 \in R /\ R \subseteq Nat
  BY <1>0, <1>1
<1>4. PICK l \in R : \A n \in R : l <= n
  BY <1>3, LeastNatural
<1>5. l \in 1..(N + 1) /\ Halts(l) /\ \A m \in 1..(l - 1) : m \in 1..N /\ ~ Halts(m)
  <2>1. l \in 1..(N + 1) /\ Halts(l)
    BY <1>0
  <2>2. \A m \in 1..(l - 1) : m \in 1..N /\ m \in 1..(N + 1) /\ ~ (l <= m)
    BY <2>1
  <2> QED BY <1>0, <1>4, <2>1, <2>2
<1>6. \A m \in 1..(l - 1) : At(s[m]) \in S
  BY <1>1, <1>5
<1> QED BY <1>0, <1>2, <1>5, <1>6

LEMMA RightEnd ==
  ASSUME NEW s \in Seq(Nat), NEW S
  PROVE  RightKept(s, S) \in 0..Len(s) /\ \A m \in (RightKept(s, S) + 1)..Len(s) : At(s[m]) \in S
<1> DEFINE Halts(n) == n = 0 \/ At(s[n]) \notin S
           R == {d \in 0..Len(s) : Halts(Len(s) - d)}
<1>0. PICK N \in Nat : N = Len(s)
  OBVIOUS
<1>1. Halts(0) /\ \A n \in 1..N : ~ Halts(n) => At(s[n]) \in S
  BY <1>0
<1>2. RightKept(s, S) = CHOOSE n \in 0..Len(s) : Halts(n) /\ \A m \in (n + 1)..Len(s) : At(s[m]) \in S
  BY DEF RightKept
<1> HIDE DEF Halts
<1>3. N \in R /\ R \subseteq Nat
  BY <1>0, <1>1
<1>4. PICK d \in R : \A n \in R : d <= n
  BY <1>3, LeastNatural
<1>5. PICK l : l = N - d
  OBVIOUS
<1>6. l \in 0..N /\ Halts(l) /\ \A m \in (l + 1)..N : m \in 1..N /\ ~ Halts(m)
  <2>1. d \in 0..N /\ l \in 0..N /\ Halts(l)
    BY <1>0, <1>5
  <2>2. ASSUME NEW m \in (l + 1)..N PROVE m \in 1..N /\ ~ Halts(m)
    <3>1. PICK x : x = N - m
      OBVIOUS
    <3>2. m \in 1..N /\ x \in 0..N /\ ~ (d <= x) /\ N - x = m
      BY <1>5, <2>1, <3>1
    <3>3. x \notin R
      BY <1>4, <3>2
    <3> QED BY <1>0, <3>2, <3>3
  <2> QED BY <2>1, <2>2
<1>7. \A m \in (l + 1)..N : At(s[m]) \in S
  BY <1>1, <1>6
<1> QED BY <1>0, <1>2, <1>6, <1>7

LEMMA RisingAll ==
  ASSUME NEW s \in Seq(Nat), Rising(s), NEW m \in 1..Len(s), NEW n \in 1..Len(s), m < n
  PROVE  s[m] < s[n]
<1> DEFINE R == {x \in 1..Len(s) : m < x /\ ~ (s[m] < s[x])}
<1>0. PICK N \in Nat : N = Len(s)
  OBVIOUS
<1>1. \A x \in 1..N : s[x] \in Nat
  BY <1>0
<1> SUFFICES ASSUME ~ (s[m] < s[n]) PROVE FALSE
  OBVIOUS
<1>2. n \in R /\ R \subseteq Nat
  BY <1>0
<1>3. PICK x \in R : \A y \in R : x <= y
  BY <1>2, LeastNatural
<1>4. x \in 1..N /\ m < x /\ ~ (s[m] < s[x]) /\ m \in 1..N
  BY <1>0, <1>3
<1> HIDE DEF R
<1>5. x \in 2..N /\ x - 1 \in 1..N /\ x - 1 < x
  BY <1>4
<1>6. s[x - 1] < s[x]
  BY <1>0, <1>5 DEF Rising
<1>7. m = x - 1 \/ m < x - 1
  BY <1>4
<1>8. CASE m = x - 1
  BY <1>4, <1>6, <1>8
<1>9. CASE m < x - 1
  <2>1. x - 1 \notin R
    BY <1>3, <1>5
  <2>2. s[m] < s[x - 1]
    BY <1>0, <1>5, <1>9, <2>1 DEF R
  <2> QED BY <1>1, <1>4, <1>5, <1>6, <2>2
<1> QED BY <1>7, <1>8, <1>9

(* A middle part of a sequence of positions. *)
Outside(s, l, r) == {s[m] : m \in (1..Len(s)) \ (l..r)}

LEMMA Middle ==
  ASSUME NEW s \in Seq(Nat), Rising(s), NEW l \in 1..(Len(s) + 1), NEW r \in 0..Len(s),
         NEW t, t = SubSeq(s, l, r)
  PROVE  /\ t \in Seq(Nat) /\ Rising(t)
         /\ ToSet(t) \subseteq ToSet(s) /\ ToSet(s) \subseteq ToSet(t) \cup Outside(s, l, r)
         /\ \A m \in 1..(l - 1), x \in ToSet(t) : s[m] < x
         /\ \A m \in (r + 1)..Len(s), x \in ToSet(t) : x < s[m]
<1>0. PICK N \in Nat : N = Len(s)
  OBVIOUS
<1>1. l \in Nat /\ r \in Nat /\ 1 <= l /\ r <= N
  BY <1>0
<1>2. t \in Seq(Nat) /\ Len(t) = (IF l <= r THEN r - l + 1 ELSE 0)
  BY <1>0, <1>1
<1>3. \A i \in 1..Len(t) : t[i] = s[l + i - 1]
  BY <1>0, <1>1, <1>2
<1>4. \A i \in 1..Len(t) : l + i - 1 \in 1..N /\ (i \in 2..Len(t) => i - 1 \in 1..Len(t) /\ l + i - 1 \in 2..N)
  BY <1>1, <1>2
<1>5. Rising(t)
  <2> SUFFICES ASSUME NEW i \in 2..Len(t) PROVE t[i - 1] < t[i]
    BY DEF Rising
  <2>1. i \in 1..Len(t) /\ i - 1 \in 1..Len(t) /\ l + i - 1 \in 2..N /\ l + (i - 1) - 1 = (l + i - 1) - 1
    BY <1>1, <1>2, <1>4
  <2> QED BY <1>0, <1>3, <2>1 DEF Rising
<1>6. ToSet(t) = {t[i] : i \in 1..Len(t)} /\ ToSet(s) = {s[i] : i \in 1..N}
  <2>1. DOMAIN t = 1..Len(t) /\ DOMAIN s = 1..N
    BY <1>0, <1>2
  <2> QED BY <2>1 DEF ToSet
<1>7. ToSet(t) \subseteq ToSet(s)
  BY <1>3, <1>4, <1>6
<1>8. \A m \in l..r : s[m] \in ToSet(t)
  <2>1. \A m \in l..r : m - l + 1 \in 1..Len(t) /\ l + (m - l + 1) - 1 = m
    BY <1>1, <1>2
  <2> QED BY <1>3, <1>6, <2>1
<1>9. ToSet(s) \subseteq ToSet(t) \cup Outside(s, l, r)
  BY <1>0, <1>6, <1>8 DEF Outside
<1>10. \A x \in ToSet(t) : \E i \in 1..Len(t) : x = s[l + i - 1] /\ l + i - 1 \in 1..N
  BY <1>3, <1>4, <1>6, ZenonT(60)
<1>11. ASSUME NEW m \in 1..(l - 1), NEW x \in ToSet(t) PROVE s[m] < x
  <2>1. PICK i \in 1..Len(t) : x = s[l + i - 1] /\ l + i - 1 \in 1..N
    BY <1>10
  <2>2. m \in 1..N /\ m < l + i - 1
    BY <1>1, <1>2, <2>1
  <2> QED BY <1>0, <2>1, <2>2, RisingAll
<1>12. ASSUME NEW m \in (r + 1)..Len(s), NEW x \in ToSet(t) PROVE x < s[m]
  <2>1. PICK i \in 1..Len(t) : x = s[l + i - 1] /\ l + i - 1 \in 1..N
    BY <1>10
  <2>2. m \in 1..N /\ l + i - 1 < m
    BY <1>0, <1>1, <1>2, <2>1
  <2> QED BY <1>0, <2>1, <2>2, RisingAll
<1> QED BY <1>2, <1>5, <1>7, <1>9, <1>11, <1>12

(* A byte that goes with a marker before or after its text. *)
Closers == {"CLOSE_INTERP", "BLOCK_OPEN", "BLOCK_CLOSE"}
LeftCut(toks, i, q, at) ==
  i > 1 /\ toks[i - 1].k \in Closers /\ At(q) \in Strips(toks[i - 1].trim) /\ \A x \in ToSet(at) : q < x
RightCut(toks, i, q, at) ==
  i < Len(toks) /\ toks[i + 1].k = "OPEN_INTERP" /\ At(q) \in Strips(toks[i + 1].trim) /\ \A x \in ToSet(at) : x < q

LEMMA TokenTrimmed ==
  ASSUME NEW toks \in Seq(Token), NEW i \in DOMAIN toks, Rising(toks[i].at),
         NEW new, new = ApplyTrims(toks)[i]
  PROVE  /\ new \in Token /\ new.k = toks[i].k
         /\ Rising(new.at) /\ ToSet(new.at) \subseteq ToSet(toks[i].at)
         /\ \A q \in ToSet(toks[i].at) :
              q \in ToSet(new.at) \/ LeftCut(toks, i, q, new.at) \/ RightCut(toks, i, q, new.at)
         /\ toks[i].k # "TEXT" => new = toks[i]
<1>1. PICK tok : tok = toks[i]
  OBVIOUS
<1>2. tok \in Token /\ tok.at \in Seq(Nat) /\ Rising(tok.at)
  <2>1. tok \in Token
    BY <1>1
  <2>2. tok.at \in Seq(Nat)
    BY <2>1, Zenon DEF Token
  <2> QED BY <1>1, <2>1, <2>2
<1>3. CASE tok.k # "TEXT"
  BY <1>1, <1>2, <1>3 DEF ApplyTrims
<1>4. CASE tok.k = "TEXT"
  <2>2. PICK L : L = IF i > 1 /\ toks[i - 1].k \in Closers THEN Strips(toks[i - 1].trim) ELSE {}
    OBVIOUS
  <2>3. PICK R : R = IF i < Len(toks) /\ toks[i + 1].k = "OPEN_INTERP" THEN Strips(toks[i + 1].trim) ELSE {}
    OBVIOUS
  <2>4. PICK s \in Seq(Nat) : s = tok.at
    BY <1>2
  <2>5. PICK l : l = LeftKept(s, L)
    OBVIOUS
  <2>6. PICK r : r = RightKept(s, R)
    OBVIOUS
  <2>7. PICK cut : cut = SubSeq(s, l, r)
    OBVIOUS
  <2>8. new = [tok EXCEPT !.at = cut]
    BY <1>1, <1>4, <2>2, <2>3, <2>4, <2>5, <2>6, <2>7 DEF ApplyTrims, Closers
  <2>9. l \in 1..(Len(s) + 1) /\ \A m \in 1..(l - 1) : At(s[m]) \in L
    BY <2>5, LeftEnd
  <2>10. r \in 0..Len(s) /\ \A m \in (r + 1)..Len(s) : At(s[m]) \in R
    BY <2>6, RightEnd
  <2>11. /\ cut \in Seq(Nat) /\ Rising(cut) /\ ToSet(cut) \subseteq ToSet(s)
         /\ ToSet(s) \subseteq ToSet(cut) \cup Outside(s, l, r)
         /\ \A m \in 1..(l - 1), x \in ToSet(cut) : s[m] < x
         /\ \A m \in (r + 1)..Len(s), x \in ToSet(cut) : x < s[m]
    <3>1. l \in 1..(Len(s) + 1) /\ r \in 0..Len(s) /\ Rising(s)
      BY <1>2, <2>4, <2>9, <2>10
    <3> QED BY <2>7, <3>1, Middle
  <2>12. \A m \in (1..Len(s)) \ (l..r) : m \in 1..(l - 1) \/ m \in (r + 1)..Len(s)
    <3>1. l \in 1..(Len(s) + 1) /\ r \in 0..Len(s) /\ Len(s) \in Nat
      BY <2>9, <2>10
    <3> QED BY <3>1
  <2>13. ASSUME NEW q \in ToSet(s), q \notin ToSet(cut)
         PROVE  LeftCut(toks, i, q, cut) \/ RightCut(toks, i, q, cut)
    <3>1. q \in Outside(s, l, r)
      BY <2>11, <2>13
    <3>2. PICK m : m \in (1..Len(s)) \ (l..r) /\ q = s[m]
      BY <3>1 DEF Outside
    <3>3. CASE m \in 1..(l - 1)
      <4>1. At(q) \in L /\ \A x \in ToSet(cut) : q < x
        BY <2>9, <2>11, <3>2, <3>3
      <4> QED BY <2>2, <4>1 DEF LeftCut
    <3>4. CASE m \in (r + 1)..Len(s)
      <4>1. At(q) \in R /\ \A x \in ToSet(cut) : x < q
        BY <2>10, <2>11, <3>2, <3>4
      <4> QED BY <2>3, <4>1 DEF RightCut
    <3> QED BY <2>12, <3>2, <3>3, <3>4
  <2>14. new \in Token /\ new.k = tok.k /\ new.at = cut
    BY <1>2, <2>8, <2>11 DEF Token
  <2> QED BY <1>1, <1>4, <2>4, <2>11, <2>13, <2>14
<1> QED BY <1>3, <1>4

LEMMA FirstIn == ASSUME NEW s \in Seq(Nat), s # <<>> PROVE s[1] \in ToSet(s)
<1>1. PICK n \in Nat : n = Len(s)
  OBVIOUS
<1>2. n # 0
  BY <1>1, EmptySeq
<1>3. 1 \in DOMAIN s
  BY <1>1, <1>2
<1> QED BY <1>3 DEF ToSet

(* The positions of a token are between its first and its last. *)
LEMMA Bounds ==
  ASSUME NEW t \in Token, Rising(t.at), t.at # <<>>, NEW x \in ToSet(t.at)
  PROVE  t.at[1] <= x /\ x <= LastOf(t) /\ LastOf(t) \in ToSet(t.at) /\ t.at[1] \in ToSet(t.at) /\ x \in Nat
<1>1. PICK s \in Seq(Nat) : s = t.at
  <2>1. t.at \in Seq(Nat)
    BY Zenon DEF Token
  <2> QED BY <2>1
<1>2. PICK N \in Nat : N = Len(s)
  OBVIOUS
<1>3. N # 0
  BY <1>1, <1>2, EmptySeq
<1>4. 1 \in 1..N /\ N \in 1..N /\ \A m \in 1..N : s[m] \in Nat
  BY <1>2, <1>3
<1>5. ToSet(s) = {s[m] : m \in 1..N}
  BY <1>2 DEF ToSet
<1>6. PICK m \in 1..N : x = s[m]
  BY <1>1, <1>5
<1>7. (m = 1 \/ 1 < m) /\ (m = N \/ m < N)
  OBVIOUS
<1>8. (1 < m => s[1] < s[m]) /\ (m < N => s[m] < s[N])
  BY <1>1, <1>2, <1>4, RisingAll
<1>9. s[1] <= x /\ x <= s[N]
  BY <1>4, <1>6, <1>7, <1>8
<1> QED BY <1>1, <1>2, <1>4, <1>5, <1>6, <1>9 DEF LastOf

(* What applyTrims makes of the tokens. *)
Trims(toks, tr) ==
  /\ tr \in Seq(Token) /\ DOMAIN tr = DOMAIN toks
  /\ \A i \in DOMAIN toks :
       /\ tr[i].k = toks[i].k /\ Rising(tr[i].at) /\ ToSet(tr[i].at) \subseteq ToSet(toks[i].at)
       /\ toks[i].k # "TEXT" => tr[i] = toks[i]
  /\ \A i \in DOMAIN toks : \A q \in ToSet(toks[i].at) :
       q \in ToSet(tr[i].at) \/ LeftCut(toks, i, q, tr[i].at) \/ RightCut(toks, i, q, tr[i].at)

LEMMA ApplyTrimsTrims ==
  ASSUME NEW p, NEW toks, Laid(toks, p), NEW tr, tr = ApplyTrims(toks)
  PROVE  Trims(toks, tr)
<1>1. toks \in Seq(Token) /\ \A i \in DOMAIN toks : Rising(toks[i].at)
  BY DEF Laid
<1>2. PICK n \in Nat : n = Len(toks)
  BY <1>1
<1>3. DOMAIN toks = 1..n
  BY <1>1, <1>2
<1>4. DOMAIN tr = 1..n /\ tr = [i \in 1..n |-> tr[i]]
  BY <1>3 DEF ApplyTrims
<1>5. ASSUME NEW i \in 1..n
      PROVE  /\ tr[i] \in Token /\ tr[i].k = toks[i].k
             /\ Rising(tr[i].at) /\ ToSet(tr[i].at) \subseteq ToSet(toks[i].at)
             /\ \A q \in ToSet(toks[i].at) :
                  q \in ToSet(tr[i].at) \/ LeftCut(toks, i, q, tr[i].at) \/ RightCut(toks, i, q, tr[i].at)
             /\ toks[i].k # "TEXT" => tr[i] = toks[i]
  <2>1. i \in DOMAIN toks /\ Rising(toks[i].at) /\ tr[i] = ApplyTrims(toks)[i]
    BY <1>1, <1>3
  <2> QED BY <1>1, <2>1, TokenTrimmed
<1>6. tr \in Seq(Token)
  BY <1>2, <1>4, <1>5
<1> QED BY <1>3, <1>4, <1>5, <1>6 DEF Trims

LEMMA Nowhere ==
  ASSUME NEW l \in Nat, NEW q \in Nat, NEW kept, \A x \in kept : x \in Nat /\ (x < l \/ q < x)
  PROVE  l..q \cap kept = {}
OBVIOUS

LEMMA Positions ==
  ASSUME NEW p, NEW toks, Laid(toks, p), NEW i \in DOMAIN toks, NEW q \in ToSet(toks[i].at)
  PROVE  /\ q \in Nat /\ i \in Nat
         /\ \A m \in DOMAIN toks : \A x \in ToSet(toks[m].at) : (m < i => x < q) /\ (i < m => q < x) /\ x \in Nat
<1>1. /\ toks \in Seq(Token)
      /\ \A j \in DOMAIN toks : \A m \in 1..(j - 1) : Before(toks[m].at, toks[j].at)
  BY DEF Laid
<1>2. \A m \in DOMAIN toks : toks[m].at \in Seq(Nat)
  <2>1. \A m \in DOMAIN toks : toks[m] \in Token
    BY <1>1
  <2> QED BY <2>1, Zenon DEF Token
<1>3. \A m \in DOMAIN toks : ToSet(toks[m].at) \subseteq Nat
  BY <1>2 DEF ToSet
<1>4. DOMAIN toks \subseteq Nat /\ \A j \in DOMAIN toks : \A m \in DOMAIN toks : m < j => m \in 1..(j - 1)
  <2>1. DOMAIN toks = 1..Len(toks) /\ Len(toks) \in Nat
    BY <1>1
  <2> QED BY <2>1
<1>5. ASSUME NEW m \in DOMAIN toks, NEW x \in ToSet(toks[m].at), m < i PROVE x < q
  BY <1>1, <1>4, <1>5 DEF Before
<1>6. ASSUME NEW m \in DOMAIN toks, NEW x \in ToSet(toks[m].at), i < m PROVE q < x
  BY <1>1, <1>4, <1>6 DEF Before
<1> QED BY <1>3, <1>4, <1>5, <1>6

LEMMA LeftTrimmed ==
  ASSUME NEW p, NEW toks, Laid(toks, p), NEW tr, Trims(toks, tr),
         NEW i \in DOMAIN toks, NEW q \in ToSet(toks[i].at), LeftCut(toks, i, q, tr[i].at)
  PROVE  \E j \in DOMAIN tr : TrimmedBy(q, tr[j], HeldIn(tr))
<1>1. PICK j : j = i - 1
  OBVIOUS
<1>2. i \in Nat /\ j \in DOMAIN toks /\ j < i /\ \A m \in DOMAIN toks : m = i \/ m = j \/ m < j \/ i < m
  <2>1. DOMAIN toks = 1..Len(toks) /\ Len(toks) \in Nat /\ i > 1
    BY DEF Laid, LeftCut
  <2> QED BY <1>1, <2>1
<1>3. PICK t : t = toks[j]
  OBVIOUS
<1>4. /\ t \in Token /\ Rising(t.at) /\ t.at # <<>> /\ t.k \in Closers /\ At(q) \in Strips(t.trim) /\ tr[j] = t
      /\ j \in DOMAIN tr
  <2>1. t.k \in Closers /\ At(q) \in Strips(t.trim)
    BY <1>1, <1>3 DEF LeftCut
  <2>2. t.k \in Marks /\ t.k # "TEXT"
    BY <2>1 DEF Closers, Marks
  <2>3. t \in Token
    BY <1>2, <1>3 DEF Laid
  <2> QED BY <1>2, <1>3, <2>1, <2>2, <2>3 DEF Laid, Trims
<1>5. PICK last : last = LastOf(t)
  OBVIOUS
<1>6. last \in ToSet(toks[j].at) /\ \A x \in ToSet(toks[j].at) : x <= last
  <2>1. PICK b : b \in ToSet(t.at)
    <3>1. t.at \in Seq(Nat)
      BY <1>4, Zenon DEF Token
    <3> QED BY <1>4, <3>1, FirstIn
  <2> QED BY <1>3, <1>4, <1>5, <2>1, Bounds
<1>7. last \in Nat /\ q \in Nat /\ last < q
  BY <1>2, <1>6, Positions
<1>8. ASSUME NEW x \in HeldIn(tr) PROVE x \in Nat /\ (x < last + 1 \/ q < x)
  <2>1. PICK m \in DOMAIN tr : x \in ToSet(tr[m].at)
    BY DEF HeldIn
  <2>2. m \in DOMAIN toks /\ x \in ToSet(toks[m].at)
    BY <2>1 DEF Trims
  <2>3. x \in Nat /\ (i < m => q < x) /\ (m < j => x < last)
    BY <1>2, <1>6, <2>2, Positions
  <2>4. m = i => q < x
    BY <2>1 DEF LeftCut
  <2>5. m = j => x <= last
    BY <1>6, <2>2
  <2>6. x < last \/ x <= last \/ q < x
    BY <1>2, <2>2, <2>3, <2>4, <2>5
  <2> QED BY <1>7, <2>3, <2>6
<1>9. (last + 1)..q \cap HeldIn(tr) = {}
  <2>1. last + 1 \in Nat
    BY <1>7
  <2> QED BY <1>7, <1>8, <2>1, Nowhere
<1>10. (At(q) = " " /\ t.trim \in {"-", "~"}) \/ (At(q) = NL /\ t.trim = "-")
  BY <1>4 DEF Strips
<1>11. TrimmedBy(q, t, HeldIn(tr))
  BY <1>4, <1>5, <1>7, <1>9, <1>10 DEF TrimmedBy, Closers
<1> QED BY <1>4, <1>11

LEMMA RightTrims ==
  ASSUME NEW p, NEW toks, Laid(toks, p), NEW tr, Trims(toks, tr),
         NEW i \in DOMAIN toks, NEW q \in ToSet(toks[i].at), RightCut(toks, i, q, tr[i].at)
  PROVE  \E j \in DOMAIN tr : TrimmedBy(q, tr[j], HeldIn(tr))
<1>1. PICK j : j = i + 1
  OBVIOUS
<1>2. i \in Nat /\ j \in DOMAIN toks /\ i < j /\ \A m \in DOMAIN toks : m = i \/ m = j \/ m < i \/ j < m
  <2>1. DOMAIN toks = 1..Len(toks) /\ Len(toks) \in Nat /\ i < Len(toks)
    BY DEF Laid, RightCut
  <2> QED BY <1>1, <2>1
<1>3. PICK t : t = toks[j]
  OBVIOUS
<1>4. /\ t \in Token /\ Rising(t.at) /\ t.at # <<>> /\ t.k = "OPEN_INTERP" /\ At(q) \in Strips(t.trim) /\ tr[j] = t
      /\ j \in DOMAIN tr
  <2>1. t.k = "OPEN_INTERP" /\ At(q) \in Strips(t.trim)
    BY <1>1, <1>3 DEF RightCut
  <2>2. t.k \in Marks /\ t.k # "TEXT"
    BY <2>1 DEF Marks
  <2>3. t \in Token
    BY <1>2, <1>3 DEF Laid
  <2> QED BY <1>2, <1>3, <2>1, <2>2, <2>3 DEF Laid, Trims
<1>5. PICK first : first = t.at[1]
  OBVIOUS
<1>6. first \in ToSet(toks[j].at) /\ \A x \in ToSet(toks[j].at) : first <= x
  <2>1. PICK b : b \in ToSet(t.at)
    <3>1. t.at \in Seq(Nat)
      BY <1>4, Zenon DEF Token
    <3> QED BY <1>4, <3>1, FirstIn
  <2> QED BY <1>3, <1>4, <1>5, <2>1, Bounds
<1>7. first \in Nat /\ q \in Nat /\ q < first
  BY <1>2, <1>6, Positions
<1>8. ASSUME NEW x \in HeldIn(tr) PROVE x \in Nat /\ (x < q \/ first - 1 < x)
  <2>1. PICK m \in DOMAIN tr : x \in ToSet(tr[m].at)
    BY DEF HeldIn
  <2>2. m \in DOMAIN toks /\ x \in ToSet(toks[m].at)
    BY <2>1 DEF Trims
  <2>3. x \in Nat /\ (m < i => x < q) /\ (j < m => first < x)
    BY <1>2, <1>6, <2>2, Positions
  <2>4. m = i => x < q
    BY <2>1 DEF RightCut
  <2>5. m = j => first <= x
    BY <1>6, <2>2
  <2>6. x < q \/ first <= x \/ first < x
    BY <1>2, <2>2, <2>3, <2>4, <2>5
  <2> QED BY <1>7, <2>3, <2>6
<1>9. q..(first - 1) \cap HeldIn(tr) = {}
  <2>1. first - 1 \in Nat
    BY <1>7
  <2> QED BY <1>7, <1>8, <2>1, Nowhere
<1>10. (At(q) = " " /\ t.trim \in {"-", "~"}) \/ (At(q) = NL /\ t.trim = "-")
  BY <1>4 DEF Strips
<1>11. TrimmedBy(q, t, HeldIn(tr))
  BY <1>4, <1>5, <1>7, <1>9, <1>10 DEF TrimmedBy
<1> QED BY <1>4, <1>11

(* Trimming takes what a marker strips, and no escape's byte. *)
LEMMA TrimGood ==
  ASSUME NEW p \in Nat, NEW toks, NEW gone, Good(toks, p, gone)
  PROVE  Over(p, <<>>, ApplyTrims(toks), gone)
<1>1. PICK tr : tr = ApplyTrims(toks)
  OBVIOUS
<1>2. Laid(toks, p) /\ Trims(toks, tr)
  BY <1>1, ApplyTrimsTrims DEF Good
<1>3. PICK n \in Nat : n = Len(toks)
  BY <1>2 DEF Laid
<1>4. DOMAIN toks = 1..n /\ DOMAIN tr = 1..n
  BY <1>2, <1>3 DEF Laid, Trims
<1>5. Laid(tr, p)
  <2>1. ASSUME NEW j \in 1..n, NEW i \in 1..(j - 1) PROVE Before(tr[i].at, tr[j].at)
    <3>1. i \in 1..n
      BY <1>3
    <3>2. Before(toks[i].at, toks[j].at)
      BY <1>2, <1>4 DEF Laid
    <3> QED BY <1>2, <1>4, <3>1, <3>2 DEF Before, Trims
  <2>2. \A i \in 1..n : Rising(tr[i].at) /\ ToSet(tr[i].at) \subseteq 1..(p - 1)
    BY <1>2, <1>4 DEF Laid, Trims
  <2>3. \A i \in 1..n : tr[i].k \in Marks => tr[i].at # <<>>
    <3>1. "TEXT" \notin Marks
      BY DEF Marks
    <3> QED BY <1>2, <1>4, <3>1 DEF Laid, Trims
  <2>4. tr \in Seq(Token)
    BY <1>2 DEF Trims
  <2> QED BY <1>4, <2>1, <2>2, <2>3, <2>4 DEF Laid
<1>6. DoorsIn(tr)
  <2> SUFFICES ASSUME NEW i \in DOMAIN tr, tr[i].k \in {"STMT", "BLOCK_CLOSE"},
                      ~ (i > 1 /\ tr[i - 1].k \in Ends)
               PROVE  LineOpen(tr[i].at[1])
    BY DEF DoorsIn
  <2>1. i \in DOMAIN toks /\ (i > 1 => i - 1 \in DOMAIN toks)
    BY <1>3, <1>4
  <2>2. toks[i].k \in {"STMT", "BLOCK_CLOSE"} /\ tr[i] = toks[i]
    BY <1>2, <2>1 DEF Trims
  <2>3. ~ (i > 1 /\ toks[i - 1].k \in Ends)
    BY <1>2, <2>1 DEF Trims
  <2> QED BY <2>1, <2>2, <2>3 DEF Good, DoorsIn
<1>7. ASSUME NEW q \in HeldIn(toks)
      PROVE  q \in HeldIn(tr) \/ ((\E j \in DOMAIN tr : TrimmedBy(q, tr[j], HeldIn(tr))) /\ At(q) \in {" ", NL})
  <2>1. PICK i \in DOMAIN toks : q \in ToSet(toks[i].at)
    BY DEF HeldIn
  <2>2. q \in ToSet(tr[i].at) \/ LeftCut(toks, i, q, tr[i].at) \/ RightCut(toks, i, q, tr[i].at)
    BY <1>2, <2>1 DEF Trims
  <2>3. \A u : Strips(u) \subseteq {" ", NL}
    BY DEF Strips
  <2>4. CASE q \in ToSet(tr[i].at)
    BY <1>4, <2>1, <2>4 DEF HeldIn
  <2>5. CASE LeftCut(toks, i, q, tr[i].at)
    <3>1. At(q) \in {" ", NL}
      BY <2>3, <2>5 DEF LeftCut
    <3> QED BY <1>2, <2>1, <2>5, <3>1, LeftTrimmed
  <2>6. CASE RightCut(toks, i, q, tr[i].at)
    <3>1. At(q) \in {" ", NL}
      BY <2>3, <2>6 DEF RightCut
    <3> QED BY <1>2, <2>1, <2>6, <3>1, RightTrims
  <2> QED BY <2>2, <2>4, <2>5, <2>6
<1>8. \A q : Near(toks, q) => Near(tr, q)
  <2>1. \A q, t : Beside(q, t) => t.k # "TEXT"
    BY DEF Beside, Indentation, AfterOpen, AfterClose, BeforeBody
  <2> QED BY <1>2, <2>1 DEF Near, Trims
<1>9. \A q : EscapeOf(q, HeldIn(toks)) => EscapeOf(q, HeldIn(tr))
  <2>1. \A q : Escapes(q) => At(q + 1) \notin {" ", NL}
    BY DEF Escapes, NL, Esc
  <2> QED BY <1>7, <2>1 DEF EscapeOf
<1>10. ASSUME ~ Faulted(tr), NEW q \in 1..(p - 1)
       PROVE  \/ q \in gone \/ q \in HeldIn(tr) \/ Layout(tr, HeldIn(tr), gone, q)
              \/ \E j \in DOMAIN tr : TrimmedBy(q, tr[j], HeldIn(tr))
  <2>1. ~ Faulted(toks)
    BY <1>2, <1>10 DEF Faulted, Trims
  <2>2. HeldIn(toks) \cup ToSet(<<>>) = HeldIn(toks) /\ ToSet(<<>>) = {}
    BY DEF ToSet
  <2>3. q \in gone \/ q \in HeldIn(toks) \/ Layout(toks, HeldIn(toks), gone, q)
    BY <2>1, <2>2 DEF Good, Spent
  <2>4. Layout(toks, HeldIn(toks), gone, q) => Layout(tr, HeldIn(tr), gone, q)
    BY <1>8, <1>9 DEF Layout
  <2> QED BY <1>7, <2>3, <2>4
<1> QED BY <1>1, <1>5, <1>6, <1>10 DEF Over

LEMMA FinishHolds == ASSUME LexInv, Finish PROVE LexInv'
<1>1. pos \in 1..(Len(code) + 1) /\ code \in Seq(Bytes) /\ TextGood(out, buf, pos, consumed)
  BY DEF LexInv, Holds, Finish
<1>2. PICK p \in Nat \ {0} : p = pos
  BY <1>1
<1>3. Good(Flush, p, consumed)
  BY <1>1, <1>2, FlushGood
<1>4. PICK toks : toks = Append(Flush, Tok("EOF", p, p))
  OBVIOUS
<1>5. Good(toks, p, consumed)
  <2>1. "EOF" \in Kinds \cup Bytes /\ "EOF" \notin {"STMT", "BLOCK_CLOSE"} \cup Marks /\ "" \in CloseTrims \cup {""}
    BY DEF Kinds, Marks
  <2>2. p \in Nat /\ p <= p
    OBVIOUS
  <2> QED BY <1>3, <1>4, <2>1, <2>2, GoodPlain
<1>6. Over(p, <<>>, ApplyTrims(toks), consumed)
  BY <1>5, TrimGood
<1>7. /\ pos' = p /\ mode' = "done" /\ out' = ApplyTrims(toks) /\ buf' = <<>>
      /\ code' = code /\ consumed' = consumed
  BY <1>2, <1>4 DEF Finish
<1>8. Over(pos', buf', out', consumed')
  BY <1>6, <1>7
<1> QED BY <1>1, <1>7, <1>8, OverNext

-----------------------------------------------------------------------------
(* Every scan *)

LEMMA InitLex == Init => LexInv
<1> SUFFICES ASSUME Init PROVE LexInv
  OBVIOUS
<1>1. code \in Seq(Bytes)
  BY InputsAssumption DEF Init
<1>2. PICK n \in Nat : n = Len(code)
  BY <1>1
<1>3. 1 \in 1..(n + 1) /\ 1 \in Nat \ {0} /\ 0 \in 0..Len(<<>>) /\ (\A q \in 1..(1 - 1) : FALSE)
      /\ \A k \in (0 + 1)..Len(<<>>) : FALSE
  BY <1>2
<1>4. Good(<<>>, 1, {})
  <2>1. <<>> \in Seq(Token) /\ \A i \in DOMAIN <<>> : FALSE
    OBVIOUS
  <2> QED BY <1>3, <2>1 DEF Good, Laid, Spent, DoorsIn
<1>5. TextGood(<<>>, <<>>, 1, {})
  BY <1>3, <1>4, GoodText
<1>6. Indent(<<>>, 0, 1) /\ LineOpen(1)
  BY <1>3 DEF Indent, LineOpen
<1>7. Holds(1, "text", <<>>, 0, TRUE, <<>>, {})
  BY <1>2, <1>3, <1>5, <1>6 DEF Holds
<1> QED BY <1>1, <1>7 DEF Init, LexInv

LEMMA NextLex == LexInv /\ [Next]_vars => LexInv'
<1> SUFFICES ASSUME LexInv, [Next]_vars PROVE LexInv'
  OBVIOUS
<1>1. CASE TextByte BY <1>1, TextByteHolds
<1>2. CASE EscapedByte BY <1>2, EscapedByteHolds
<1>3. CASE OpenInterp BY <1>3, OpenInterpHolds
<1>4. CASE Comment BY <1>4, CommentHolds
<1>5. CASE Statement BY <1>5, StatementHolds
<1>6. CASE BlockClose BY <1>6, BlockCloseHolds
<1>7. CASE Verbatim BY <1>7, VerbatimHolds
<1>8. CASE CodeBlank BY <1>8, CodeBlankHolds
<1>9. CASE CodeToken BY <1>9, CodeTokenHolds
<1>10. CASE CodeFault BY <1>10, CodeFaultHolds
<1>11. CASE CloseInterp BY <1>11, CloseInterpHolds
<1>12. CASE OpenBody BY <1>12, OpenBodyHolds
<1>13. CASE EndStatement BY <1>13, EndStatementHolds
<1>14. CASE Finish BY <1>14, FinishHolds
<1>15. CASE UNCHANGED vars
  <2>1. /\ code' = code /\ pos' = pos /\ mode' = mode /\ buf' = buf /\ lineMark' = lineMark
        /\ atLineStart' = atLineStart /\ out' = out /\ consumed' = consumed /\ code \in Seq(Bytes)
    BY <1>15 DEF vars, LexInv
  <2>2. CASE mode = "done"
    <3>1. Over(pos', buf', out', consumed')
      BY <2>1, <2>2 DEF LexInv
    <3> QED BY <2>1, <2>2, <3>1, OverNext
  <2>3. CASE mode # "done"
    <3>1. Holds(pos', mode', buf', lineMark', atLineStart', out', consumed')
      BY <2>1, <2>3 DEF LexInv
    <3> QED BY <2>1, <3>1, HoldsNext
  <2> QED BY <2>2, <2>3
<1> QED
  BY <1>1, <1>2, <1>3, <1>4, <1>5, <1>6, <1>7, <1>8, <1>9, <1>10, <1>11, <1>12, <1>13, <1>14, <1>15 DEF Next

THEOREM LexIsGood == Spec => []LexInv
BY InitLex, NextLex, PTL DEF Spec

(* A template is its bytes: whatever doors, escapes, comments, trims and     *)
(* verbatim bodies meet, a scan without an error has each byte in one token  *)
(* or comment, in order, but for the layout of the door, the comment, the    *)
(* escape or the trim marker next to it.                                     *)
THEOREM EachByteOnce == Spec => []EveryByteOnce
<1>1. ASSUME LexInv PROVE EveryByteOnce
  <2> SUFFICES ASSUME mode = "done"
               PROVE  /\ \A i \in DOMAIN out : \A n \in 2..Len(out[i].at) : out[i].at[n - 1] < out[i].at[n]
                      /\ \A j \in DOMAIN out : \A i \in 1..(j - 1) : Before(out[i].at, out[j].at)
                      /\ ~(\E i \in DOMAIN out : out[i].k = "ERROR") => \A p \in Lost : IsLayout(p)
    BY DEF EveryByteOnce
  <2>1. Over(pos, buf, out, consumed)
    BY <1>1 DEF LexInv
  <2>2. /\ \A i \in DOMAIN out : Rising(out[i].at)
        /\ \A j \in DOMAIN out : \A i \in 1..(j - 1) : Before(out[i].at, out[j].at)
    BY <2>1 DEF Over, Laid
  <2>3. Held = HeldIn(out)
    <3>1. ToSet(buf) = {}
      BY <2>1 DEF Over, ToSet
    <3> QED BY <3>1 DEF Held, HeldIn
  <2>4. ~ Faulted(out) => \A p \in Lost : IsLayout(p)
    <3> SUFFICES ASSUME ~ Faulted(out), NEW p \in Lost PROVE IsLayout(p)
      OBVIOUS
    <3>1. p \in 1..(pos - 1) /\ p \notin consumed /\ p \notin HeldIn(out)
      BY <2>3 DEF Lost
    <3>2. Layout(out, HeldIn(out), consumed, p) \/ \E i \in DOMAIN out : TrimmedBy(p, out[i], HeldIn(out))
      BY <2>1, <3>1 DEF Over
    <3> QED BY <2>3, <3>2 DEF Layout, Near, IsLayout
  <2> QED BY <2>2, <2>4 DEF Rising, Faulted
<1> QED BY <1>1, LexIsGood, PTL

(* A statement or a close stands where its line starts: before it are only   *)
(* blanks, or escapes that the scan takes for them; except right after the   *)
(* close of a body.                                                          *)
THEOREM DoorsStandAtLineStarts == Spec => []DoorsStartLines
<1>1. ASSUME LexInv PROVE DoorsStartLines
  <2>1. mode = "done" => DoorsIn(out)
    BY <1>1 DEF LexInv, Over
  <2> QED BY <2>1 DEF DoorsIn, LineOpen, Ends, DoorsStartLines
<1> QED BY <1>1, LexIsGood, PTL
=============================================================================
