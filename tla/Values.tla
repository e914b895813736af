------------------------------- MODULE Values -------------------------------
(***************************************************************************)
(* The run-time values of templates as far as numbers and keys go: int64   *)
(* arithmetic with its overflow checks (internal/interp/operators.go),     *)
(* equality, order and membership (pkg/runtime/compare.go), truthiness,    *)
(* the canonical keys of pkg/runtime/array.go and the conversion of host   *)
(* maps, slices and structs (fromgo.go).  An integer has Width bits and a  *)
(* float64 keeps integers up to 2^Mantissa exactly; a string that is a key *)
(* is a sequence of characters: the digits 0 to 9, Minus and letters.      *)
(***************************************************************************)
EXTENDS Integers, Sequences, SequencesExt, FiniteSets

CONSTANTS Width, Mantissa

Minus == 10
MinInt64 == -(2^(Width - 1))
MaxInt64 == 2^(Width - 1) - 1
Int64 == MinInt64..MaxInt64
Wrap(n) == ((n - MinInt64) % 2^Width) + MinInt64

Magnitude(n) == IF n < 0 THEN -n ELSE n
\* Go's quotient rounds toward zero, and the remainder has the dividend's sign.
Quo(a, b) == IF (a < 0) = (b < 0) THEN Magnitude(a) \div Magnitude(b) ELSE -(Magnitude(a) \div Magnitude(b))
Rem(a, b) == a - b * Quo(a, b)

(***************************************************************************)
(* Checked arithmetic: <<>> is an overflow, <<n>> the result               *)
(***************************************************************************)
addInt64(a, b) ==
  LET s == Wrap(a + b)
  IN IF (a > 0 /\ b > 0 /\ s < 0) \/ (a < 0 /\ b < 0 /\ s >= 0) THEN <<>> ELSE <<s>>

subInt64(a, b) ==
  LET d == Wrap(a - b)
  IN IF (a >= 0 /\ b < 0 /\ d < 0) \/ (a < 0 /\ b > 0 /\ d >= 0) THEN <<>> ELSE <<d>>

(* Mutant: the quotient alone is trusted. *)
mulInt64_QuotientOnly(a, b) ==
  LET p == Wrap(a * b) IN IF a # 0 /\ b # 0 /\ Wrap(Quo(p, a)) # b THEN <<>> ELSE <<p>>

mulInt64(a, b) ==
  LET p == Wrap(a * b)
  IN CASE a = 0 \/ b = 0 -> <<0>>
       [] {a, b} = {MinInt64, -1} -> <<>>
       [] OTHER -> IF Wrap(Quo(p, a)) # b THEN <<>> ELSE <<p>>

divInt64(a, b) == IF a = MinInt64 /\ b = -1 THEN <<>> ELSE <<Quo(a, b)>>

floorDivInt64(a, b) ==
  LET q == divInt64(a, b)
  IN IF q # <<>> /\ Rem(a, b) # 0 /\ (a < 0) # (b < 0) THEN <<q[1] - 1>> ELSE q

RECURSIVE Power(_, _, _)
\* powInt64's loop: the base is squared only while bits of the exponent remain.
Power(result, base, e) ==
  IF e = 0 THEN <<result>>
  ELSE LET p == IF e % 2 = 1 THEN mulInt64(result, base) ELSE <<result>>
           sq == IF e \div 2 = 0 THEN <<base>> ELSE mulInt64(base, base)
       IN IF p = <<>> \/ sq = <<>> THEN <<>> ELSE Power(p[1], sq[1], e \div 2)

powInt64(a, e) == Power(1, a, e)

Operators == {"+", "-", "*", "/", "//", "%", "**"}

\* arith and evalPower on two integers: an integer, a float or an error.
Arith(op, a, b) ==
  LET Checked(r) == IF r = <<>> THEN [k |-> "error", v |-> 0] ELSE [k |-> "int", v |-> r[1]]
  IN CASE op = "+" -> Checked(addInt64(a, b))
       [] op = "-" -> Checked(subInt64(a, b))
       [] op = "*" -> Checked(mulInt64(a, b))
       [] op \in {"/", "//", "%"} /\ b = 0 -> [k |-> "error", v |-> 0]
       [] op = "/" /\ Rem(a, b) = 0 -> Checked(divInt64(a, b))
       [] op = "//" -> Checked(floorDivInt64(a, b))
       [] op = "%" -> [k |-> "int", v |-> Rem(a, b)]
       [] op = "**" /\ b >= 0 -> Checked(powInt64(a, b))
       [] OTHER -> [k |-> "float", v |-> 0]

RECURSIVE Powered(_, _)
\* a to the power b; a power outside int64 stands for all higher ones.
Powered(a, b) ==
  IF b = 0 THEN 1 ELSE LET p == Powered(a, b - 1) IN IF p \in Int64 THEN a * p ELSE p

\* The integer a computation stands for, when there is one: the result must be it,
\* or an error when int64 cannot hold it; it is never a wrapped number.
Exact(op, a, b) ==
  CASE op = "+" -> a + b
    [] op = "-" -> a - b
    [] op = "*" -> a * b
    [] op = "**" -> Powered(a, b)
    [] op = "/" -> Quo(a, b)
    [] op = "//" -> IF b > 0 THEN a \div b ELSE (-a) \div (-b)
    [] op = "%" -> a - b * Quo(a, b)

\* Integer arithmetic is exact or an error, at every corner of the range: no sum,
\* product, quotient or power wraps, and none that fits is refused.
IntegersExact(a, b) ==
  \A op \in Operators :
    LET r == Arith(op, a, b)
    IN CASE op \in {"/", "//", "%"} /\ b = 0 -> r.k = "error"
         [] op = "**" /\ b < 0 -> r.k = "float"
         [] op = "/" /\ Rem(a, b) # 0 -> r.k = "float"
         [] OTHER -> IF Exact(op, a, b) \in Int64 THEN r = [k |-> "int", v |-> Exact(op, a, b)] ELSE r.k = "error"

(***************************************************************************)
(* Equality, order, membership, truthiness                                 *)
(*                                                                         *)
(* A value is a record of its kind and a number or a sequence of pairs of  *)
(* a key and a value; a string is a number in the order of strings, 0 the  *)
(* empty one.                                                              *)
(***************************************************************************)
Numeric(v) == v.k \in {"int", "float"}
Normalized(v) == IF v.k = "safe" THEN [v EXCEPT !.k = "str"] ELSE v

\* float64(n): integers of more than Mantissa bits lose their low bits.
toFloat(v) ==
  LET m == Magnitude(v.v)
      unit == IF m < 2^Mantissa THEN 1 ELSE IF m < 2^(Mantissa + 1) THEN 2 ELSE 4
      even == (m \div unit) * unit
      near == IF 2 * (m - even) > unit \/ (2 * (m - even) = unit /\ (m \div unit) % 2 = 1) THEN even + unit ELSE even
  IN IF v.v < 0 THEN -near ELSE near

RECURSIVE Equal(_, _)
Equal(x, y) ==
  LET a == Normalized(x) b == Normalized(y)
  IN CASE a.k # b.k -> Numeric(a) /\ Numeric(b) /\ toFloat(a) = toFloat(b)
       [] a.k = "array" -> /\ Len(a.v) = Len(b.v)
                           /\ \A i \in 1..Len(a.v) : a.v[i].key = b.v[i].key /\ Equal(a.v[i].val, b.v[i].val)
       [] OTHER -> a.v = b.v

Orderable(x, y) ==
  LET a == Normalized(x) b == Normalized(y) IN (Numeric(a) /\ Numeric(b)) \/ (a.k = "str" /\ b.k = "str")

\* Order for an orderable pair: -1, 0 or 1.
Order(x, y) ==
  LET a == Normalized(x) b == Normalized(y)
      l == IF Numeric(a) THEN toFloat(a) ELSE a.v
      r == IF Numeric(b) THEN toFloat(b) ELSE b.v
  IN CASE l < r -> -1 [] l > r -> 1 [] OTHER -> 0

\* Equality of integers is exact.  The order compares them as float64: it never turns two
\* round, and ties none but neighbours that float64 cannot keep apart.
IntegersCompared(a, b) ==
  LET x == [k |-> "int", v |-> a] y == [k |-> "int", v |-> b]
  IN /\ Equal(x, y) <=> a = b
     /\ Order(x, y) = -Order(y, x)
     /\ a < b => Order(x, y) <= 0
     /\ a # b /\ Order(x, y) = 0 => Magnitude(a) >= 2^Mantissa /\ Magnitude(b) >= 2^Mantissa

In(x, haystack) == \E i \in DOMAIN haystack.v : Equal(x, haystack.v[i].val)

Truthy(v) == CASE v.k = "null" -> FALSE [] v.k = "array" -> v.v # <<>> [] OTHER -> v.v # 0

(***************************************************************************)
(* Canonical keys                                                          *)
(***************************************************************************)
Digits == 0..9

RECURSIVE Decimal(_)
Decimal(n) == IF n < 0 THEN <<Minus>> \o Decimal(-n) ELSE IF n < 10 THEN <<n>> ELSE Append(Decimal(n \div 10), n % 10)

RECURSIVE Numeral(_)
Numeral(s) == IF s = <<>> THEN 0 ELSE 10 * Numeral(Front(s)) + Last(s)

canonInt(k) == Decimal(k)

Signed(s) == s # <<>> /\ s[1] = Minus
Unsigned(s) == IF Signed(s) THEN Tail(s) ELSE s

looksCanonicalInt(s) ==
  LET d == Unsigned(s)
  IN d # <<>> /\ (IF d[1] = 0 THEN Len(s) = 1 ELSE \A i \in 1..Len(d) : d[i] \in Digits)

parsed(s) == IF Signed(s) THEN -Numeral(Tail(s)) ELSE Numeral(s)
parseCanonicalInt(s) == looksCanonicalInt(s) /\ parsed(s) \in Int64

RECURSIVE LexLeq(_, _)
LexLeq(s, t) == s = <<>> \/ s[1] < t[1] \/ (s[1] = t[1] /\ LexLeq(Tail(s), Tail(t)))

(* Mutant: one bound for both signs. *)
isCanonicalIntKey_OneBound(s) ==
  /\ looksCanonicalInt(s)
  /\ LET d == Unsigned(s)
         bound == Decimal(MaxInt64)
     IN IF Len(d) # Len(bound) THEN Len(d) < Len(bound) ELSE LexLeq(d, bound)

isCanonicalIntKey(s) ==
  /\ looksCanonicalInt(s)
  /\ LET d == Unsigned(s)
         bound == Unsigned(Decimal(IF Signed(s) THEN MinInt64 ELSE MaxInt64))
     IN IF Len(d) # Len(bound) THEN Len(d) < Len(bound) ELSE LexLeq(d, bound)

RECURSIVE Descend(_, _)
\* fastCanonInt accumulates downward, so that MinInt64 never leaves the range.
Descend(n, s) == IF s = <<>> THEN n ELSE Descend(Wrap(Wrap(n * 10) - Head(s)), Tail(s))
fastCanonInt(s) == IF Signed(s) THEN Descend(0, Tail(s)) ELSE Wrap(-Descend(0, s))

canonicalizeStringKey(s) == IF parseCanonicalInt(s) THEN canonInt(parsed(s)) ELSE s
\* The key read back: an integer or the string.
keyValue(enc) == IF isCanonicalIntKey(enc) THEN [int |-> TRUE, of |-> Decimal(fastCanonInt(enc))] ELSE [int |-> FALSE, of |-> enc]

\* A key written as a string and read back prints the same, is an integer exactly
\* when it is some int64's decimal, and meets the entry of that integer: at the
\* limits of int64, for signs and for leading zeros.
KeysCanonical(s) ==
  LET enc == canonicalizeStringKey(s)
  IN /\ keyValue(enc).of = s
     /\ keyValue(enc).int <=> \E k \in Int64 : Decimal(k) = s
     /\ \A k \in Int64 : enc = canonInt(k) <=> s = Decimal(k)

(***************************************************************************)
(* Arrays and host values                                                  *)
(***************************************************************************)
IndexOf(a, enc) == {i \in DOMAIN a : a[i].key = enc}
\* set: a new key goes last, a known one keeps its place.
Put(a, enc, val) ==
  IF IndexOf(a, enc) = {} THEN Append(a, [key |-> enc, val |-> val])
  ELSE [i \in DOMAIN a |-> IF a[i].key = enc THEN [key |-> enc, val |-> val] ELSE a[i]]

IsList(a) == \A i \in DOMAIN a : isCanonicalIntKey(a[i].key) /\ a[i].key = canonInt(i - 1)

Overflows(g) == g.k = "uint" /\ g.v > MaxInt64

\* mapKeyString on a host key: an integer, or the string it is.
mapKeyString(g) == IF g.k = "str" THEN g.s ELSE canonInt(g.v)

StringBefore(s, t) == s # t /\ (\/ IsPrefix(s, t)
  \/ \E i \in 1..Len(s) : i <= Len(t) /\ SubSeq(s, 1, i - 1) = SubSeq(t, 1, i - 1) /\ s[i] < t[i])

(* Mutant: integer keys are sorted as the strings they become. *)
EntryBefore_Text(intKeyed, e, f) == StringBefore(mapKeyString(e.key), mapKeyString(f.key))

EntryBefore(intKeyed, e, f) ==
  IF intKeyed THEN parsed(mapKeyString(e.key)) < parsed(mapKeyString(f.key))
  ELSE StringBefore(mapKeyString(e.key), mapKeyString(f.key))

RECURSIVE Stored(_, _)
Stored(a, entries) ==
  IF entries = <<>> THEN a ELSE Stored(Put(a, canonicalizeStringKey(mapKeyString(Head(entries).key)), Head(entries).val), Tail(entries))

\* fromMap: the entries in some order of Go's iteration, sorted by the key.
fromMap(intKeyed, order) ==
  IF \E i \in DOMAIN order : Overflows(order[i].key) THEN [k |-> "error", v |-> <<>>]
  ELSE [k |-> "array", v |-> Stored(<<>>, SortSeq(order, LAMBDA e, f : EntryBefore(intKeyed, e, f)))]

\* No two keys are spelled alike; they may be where the keys are of an interface type.
SpelledApart(order) == \A i, j \in DOMAIN order : i # j => mapKeyString(order[i].key) # mapKeyString(order[j].key)

\* A host map becomes the same array whatever order Go iterates it in; integer keys
\* come in the order of numbers, so a map from 0 to n is the list a template expects.
MapsMarshalOneWay(intKeyed, order) ==
  LET r == fromMap(intKeyed, order)
  IN r.k = "array" =>
       /\ \A p \in SetToSeqs(ToSet(order)) : fromMap(intKeyed, p) = r
       /\ intKeyed => \A i, j \in DOMAIN r.v : i < j => parsed(r.v[i].key) < parsed(r.v[j].key)
       /\ intKeyed /\ {order[i].key.v : i \in DOMAIN order} = 0..(Len(order) - 1) => IsList(r.v)
=============================================================================
