---------------------------- MODULE Collections ----------------------------
(***************************************************************************)
(* The collection filters, functions and tests of the standard library     *)
(* (pkg/ext/core.go and stdlib.go) over the arrays of Values: a sequence   *)
(* of pairs of a key and a value.  A filter that cannot work on its        *)
(* argument returns Failed.  An arrow that gives a value per element is    *)
(* one that reads a member path of it, like the path a filter may be given *)
(* in its place; the empty path is the element itself.                     *)
(***************************************************************************)
EXTENDS Values, FiniteSetsExt

Null == [k |-> "null", v |-> 0]
Failed == [k |-> "error", v |-> 0]
Fails(r) == r.k = "error"
Num(n) == [k |-> "int", v |-> n]
Arr(a) == [k |-> "array", v |-> a]

vals(a) == [i \in DOMAIN a |-> a[i].val]
list(vs) == [i \in DOMAIN vs |-> [key |-> canonInt(i - 1), val |-> vs[i]]]
lists(vss) == list([i \in DOMAIN vss |-> Arr(list(vss[i]))])
Rows(a) == [i \in DOMAIN a |-> vals(a[i].val.v)]
Rebuilt(ps) == FoldLeft(LAMBDA out, p : Put(out, p.key, p.val), <<>>, ps)

\* A key as the value a template sees: an integer, or a one-letter string.
keyOf(enc) == IF isCanonicalIntKey(enc) THEN Num(fastCanonInt(enc)) ELSE [k |-> "str", v |-> IF enc = <<>> THEN 0 ELSE enc[1]]

(***************************************************************************)
(* Ends, windows and concatenation                                         *)
(***************************************************************************)
filterFirst1(a) == IF a = <<>> THEN Null ELSE a[1].val
filterLast1(a) == IF a = <<>> THEN Null ELSE a[Len(a)].val
filterKeys1(a) == list([i \in DOMAIN a |-> keyOf(a[i].key)])

reverseCore(a, preserveKeys) == IF preserveKeys THEN Rebuilt(Reverse(a)) ELSE list(Reverse(vals(a)))

IntKeyed(a) == Cardinality({i \in DOMAIN a : isCanonicalIntKey(a[i].key)})

filterMerge(a, b) ==
  FoldLeft(LAMBDA out, p : Put(out, IF isCanonicalIntKey(p.key) THEN canonInt(IntKeyed(out)) ELSE p.key, p.val), <<>>, a \o b)

Clamp(n, lo, hi) == IF n < lo THEN lo ELSE IF n > hi THEN hi ELSE n

\* The window of n elements; <<>> is a length that was not given.
sliceBounds(n, start, length) ==
  LET lo == Clamp(IF start < 0 THEN start + n ELSE start, 0, n)
      end == IF length = <<>> THEN n ELSE IF length[1] < 0 THEN n + length[1] ELSE Wrap(lo + length[1])
  IN <<lo, IF end < lo THEN lo ELSE IF end > n THEN n ELSE end>>

filterSlice(a, start, length) ==
  LET w == sliceBounds(Len(a), start, length) IN list(SubSeq(vals(a), w[1] + 1, w[2]))

\* a[start:end] asks the filter for end - start elements.
evalSlice(a, start, end) == filterSlice(a, start, IF end = <<>> THEN <<>> ELSE <<Wrap(end[1] - start)>>)

RECURSIVE Counted(_, _, _, _, _)
\* The loop of fnRange from n, up or down; when it has passed every number it never ends.
Counted(n, hi, step, way, left) ==
  IF way * (n - hi) > 0 THEN Arr(<<>>)
  ELSE IF left = 0 THEN Failed
  ELSE LET rest == Counted(Wrap(n + way * step), hi, step, way, left - 1)
       IN IF Fails(rest) THEN Failed ELSE Arr(<<n>> \o rest.v)

fnRange(lo, hi, step) == IF step = 0 THEN Failed ELSE Counted(lo, hi, step, IF lo <= hi THEN 1 ELSE -1, 2^Width)

\* A step below zero, or a bound within a step of the ends of int64, makes the loop
\* run past the bound: round int64, or for ever.
RangeEnds(hi, step, way) == step > 0 /\ hi + way * step \in Int64

fnCycle(a, pos) == IF a = <<>> THEN Failed ELSE a[Rem(Wrap(Rem(pos, Len(a)) + Len(a)), Len(a)) + 1].val

(***************************************************************************)
(* Order                                                                   *)
(***************************************************************************)
\* What the comparison of a sort says of two pairs; 2 is an error.
Compared(by, p, q) ==
  LET Ordered(x, y) == IF Orderable(x, y) THEN Order(x, y) ELSE 2
  IN CASE by = "key" -> Ordered(keyOf(p.key), keyOf(q.key))
       [] by = "value" -> Ordered(p.val, q.val)
       [] by = "falling" -> Ordered(q.val, p.val)

RECURSIVE Sift(_, _, _)
\* One element moves left while it is below its neighbour.
Sift(by, st, j) ==
  IF j = 1 THEN st
  ELSE LET c == Compared(by, st.ps[j], st.ps[j - 1])
       IN CASE c = 2 -> [st EXCEPT !.failed = TRUE]
            [] c = -1 -> Sift(by, [st EXCEPT !.ps = [@ EXCEPT ![j] = st.ps[j - 1], ![j - 1] = st.ps[j]]], j - 1)
            [] OTHER -> st

\* sort.SliceStable, which is an insertion sort up to twenty elements.
SliceStable(by, ps) ==
  FoldLeft(LAMBDA st, j : Sift(by, st, j), [ps |-> ps, failed |-> FALSE], [j \in 1..Len(ps) |-> j])

Sorted(by, a) == LET st == SliceStable(by, a) IN IF st.failed THEN Failed ELSE Arr(Rebuilt(st.ps))

\* sort_map takes the keys or the values, sort the values, upward or by an arrow.
filterSortMap(a, by) == IF by \in {"key", "value"} THEN Sorted(by, a) ELSE Failed
filterSortArrow(a, falling) == Sorted(IF falling THEN "falling" ELSE "value", a)

(* Mutant: a value as good as the best replaces it, and a mix of kinds is let through. *)
reduceOrder_Last(vs, want) ==
  IF vs = <<>> THEN Failed
  ELSE FoldLeft(LAMBDA best, x : IF Fails(best) THEN Failed
                                 ELSE IF Orderable(x, best) /\ Order(x, best) # -want THEN x ELSE best, vs[1], Tail(vs))

\* max for 1 and min for -1, of values or of one collection's values.
reduceOrder(vs, want) ==
  IF vs = <<>> THEN Failed
  ELSE FoldLeft(LAMBDA best, x : IF Fails(best) \/ ~Orderable(x, best) THEN Failed
                                 ELSE IF Order(x, best) = want THEN x ELSE best, vs[1], Tail(vs))

Bool(b) == [k |-> "bool", v |-> IF b THEN 1 ELSE 0]

orderTest(test, x, y) ==
  IF ~Orderable(x, y) THEN Failed
  ELSE LET c == Order(x, y)
       IN Bool(CASE test = "lt" -> c < 0 [] test = "le" -> c <= 0 [] test = "gt" -> c > 0 [] test = "ge" -> c >= 0)

divisibleBy(x, y) == IF x.k # "int" \/ y.k # "int" \/ y.v = 0 THEN Failed ELSE Bool(Rem(x.v, y.v) = 0)

\* A test by its name, on a value and its argument.
namedTest(test, x, y) ==
  CASE test = "eq" -> Bool(Equal(x, y))
    [] test = "ne" -> Bool(~Equal(x, y))
    [] test \in {"lt", "le", "gt", "ge"} -> orderTest(test, x, y)
    [] test = "divisible_by" -> divisibleBy(x, y)
    [] test = "even" -> divisibleBy(x, Num(2))
    [] test = "null" -> Bool(x.k = "null")
    [] test = "empty" -> Bool(x.k = "null" \/ (x.k = "str" /\ x.v = 0) \/ (x.k = "array" /\ x.v = <<>>))
    [] test = "iterable" -> Bool(x.k = "array")
    [] test = "sequence" -> Bool(x.k = "array" /\ IsList(x.v))
    [] test = "mapping" -> Bool(x.k = "array" /\ ~IsList(x.v))
    [] test = "string" -> Bool(x.k \in {"str", "safe"})
    [] test = "number" -> Bool(Numeric(x))

(***************************************************************************)
(* Splitting, gathering and choosing                                       *)
(***************************************************************************)
(* Mutant: whatever fill is given pads. *)
Padding_Any(fill) == fill

\* fill is <<>> or the one value to pad with; null pads nothing.
Padding(fill) == IF fill = <<Null>> THEN <<>> ELSE fill

\* batch in rows of size, the last one padded.
filterBatch(a, size, fill) ==
  IF size < 1 THEN Failed
  ELSE LET n == Len(a)
           At(i) == IF i <= n THEN <<a[i].val>> ELSE Padding(fill)
           Row(r) == FoldLeft(LAMBDA out, i : out \o At(i), <<>>, [c \in 1..size |-> (r - 1) * size + c])
       IN Arr(lists([r \in 1..((n + size - 1) \div size) |-> Row(r)]))

(* Mutant: elements go to columns in runs of the tallest column's height. *)
filterColumns_Runs(a, n, fill) ==
  IF n < 1 THEN Failed
  ELSE LET height == (Len(a) + n - 1) \div n
           Col(c) == LET own == SubSeq(vals(a), (c - 1) * height + 1, IF c * height > Len(a) THEN Len(a) ELSE c * height)
                     IN IF Padding(fill) = <<>> THEN own ELSE own \o [i \in 1..(height - Len(own)) |-> fill[1]]
       IN Arr(lists([c \in 1..n |-> Col(c)]))

\* columns: the element at index i goes to column i % n, padded to the tallest.
filterColumns(a, n, fill) ==
  IF n < 1 THEN Failed
  ELSE LET height == (Len(a) + n - 1) \div n
           Col(c) == LET own == [r \in 1..((Len(a) - c + n) \div n) |-> a[(r - 1) * n + c].val]
                     IN IF Padding(fill) = <<>> THEN own ELSE own \o [i \in 1..(height - Len(own)) |-> fill[1]]
       IN Arr(lists([c \in 1..n |-> Col(c)]))

filterEntries(a) == lists([i \in DOMAIN a |-> <<keyOf(a[i].key), a[i].val>>])

\* pluck: a path of member names walked from a value.  A member that is missing is
\* null, and a member of anything but a collection is an error: so is a member of null.
pluck(x, path) ==
  FoldLeft(LAMBDA cur, seg : IF cur.k # "array" THEN Failed
                             ELSE IF IndexOf(cur.v, seg) = {} THEN Null
                             ELSE cur.v[CHOOSE i \in IndexOf(cur.v, seg) : TRUE].val, x, path)

Of(a, path) == [i \in DOMAIN a |-> pluck(a[i].val, path)]
AnyFails(vs) == \E i \in DOMAIN vs : Fails(vs[i])
\* The pairs of a whose flag is set, unless asking for one of the flags failed.
Chosen(a, flags) ==
  LET set == SelectSeq([i \in DOMAIN a |-> i], LAMBDA i : Truthy(flags[i]))
  IN IF AnyFails(flags) THEN Failed ELSE Arr(Rebuilt([n \in DOMAIN set |-> a[set[n]]]))

\* column skips the rows without the member, or where it is null.
filterColumn(a, name) ==
  LET got == Of(a, <<name>>)
  IN IF AnyFails(got) THEN Failed ELSE Arr(list(SelectSeq(got, LAMBDA x : x.k # "null")))

filterMap(a, path) ==
  LET got == Of(a, path)
  IN IF AnyFails(got) THEN Failed ELSE Arr(Rebuilt([i \in DOMAIN a |-> [a[i] EXCEPT !.val = got[i]]]))

filterFilter(a, path) == Chosen(a, Of(a, path))

\* find stops at the first element that is truthy, or fails there.
filterFind(a, path) ==
  LET stops == SelectSeq(a, LAMBDA p : Fails(pluck(p.val, path)) \/ Truthy(pluck(p.val, path)))
  IN IF stops # <<>> /\ Fails(pluck(stops[1].val, path)) THEN Failed ELSE filterFirst1(stops)

Kept(flags, keep) == [i \in DOMAIN flags |-> IF Fails(flags[i]) THEN Failed ELSE Bool((flags[i].v = 1) = keep)]

\* select and reject.
filterSelect(a, test, arg, keep) == Chosen(a, Kept([i \in DOMAIN a |-> namedTest(test, a[i].val, arg)], keep))

\* selectattr and rejectattr: by a test of the member, or by its truth when test is "".
filterSelectAttr(a, path, test, arg, keep) ==
  LET got == Of(a, path)
      Flag(x) == IF Fails(x) THEN Failed ELSE IF test = "" THEN Bool(Truthy(x)) ELSE namedTest(test, x, arg)
  IN Chosen(a, Kept([i \in DOMAIN a |-> Flag(got[i])], keep))

\* The total as an integer; it wraps as int64 does.
filterSum(a, path) ==
  LET got == Of(a, path)
      total == FoldLeft(LAMBDA n, x : n + x.v, 0, got)
  IN IF \E i \in DOMAIN got : ~Numeric(got[i]) THEN Failed
     ELSE IF \E i \in DOMAIN got : got[i].k = "float" THEN [k |-> "float", v |-> total] ELSE Num(Wrap(total))

Known(groups, key) == {g \in DOMAIN groups : Equal(key, groups[g].key)}

\* unique keeps the first of the elements whose members at the path are equal.
filterUnique(a, path) ==
  LET Seen(kept, p) == Known(kept, pluck(p.val, path)) # {}
      kept == FoldLeft(LAMBDA seen, p : IF Seen(seen, p) THEN seen
                                        ELSE Append(seen, [key |-> pluck(p.val, path), val |-> p.val]), <<>>, a)
  IN IF AnyFails(Of(a, path)) THEN Failed ELSE Arr(list([i \in DOMAIN kept |-> kept[i].val]))

Grouped(a, path, Pick(_)) ==
  FoldLeft(LAMBDA groups, p :
             LET key == pluck(p.val, path) known == Known(groups, key)
             IN IF known = {} THEN Append(groups, [key |-> key, items |-> <<p.val>>])
                ELSE [groups EXCEPT ![Pick(known)].items = Append(@, p.val)], <<>>, a)

(* Mutant: an element joins the latest group that has its key. *)
filterGroupBy_Latest(a, path) == IF AnyFails(Of(a, path)) THEN Failed ELSE Arr(Grouped(a, path, Max))

\* group_by: groups in the order of their first elements; an element joins the first
\* group whose key equals its own.
filterGroupBy(a, path) == IF AnyFails(Of(a, path)) THEN Failed ELSE Arr(Grouped(a, path, Min))

(***************************************************************************)
(* What the filters promise together                                       *)
(***************************************************************************)
Mixed(vs) == \E i, j \in DOMAIN vs : i # j /\ ~Orderable(vs[i], vs[j])

InOrder(by, ps) == \A i, j \in DOMAIN ps : i < j => Compared(by, ps[i], ps[j]) <= 0

\* Two integers that the order, which compares them as float64, cannot tell apart.
Tied(x, y) == x.k = "int" /\ y.k = "int" /\ x.v # y.v /\ toFloat(x) = toFloat(y)

\* A sort refuses a collection exactly when it holds two values no order relates;
\* otherwise every pair comes once, with its key, in order, and pairs that compare
\* equal stay as they were.  max and min refuse the same collections and take the
\* first of the greatest and of the least values; lt and the other tests are one order;
\* and what unique keeps, which goes by equality, the order tells apart, but for integers
\* it ties.
SortsOnce(a) ==
  /\ \A by \in {"key", "value", "falling"} :
       LET r == IF by = "key" THEN filterSortMap(a, by) ELSE filterSortArrow(a, by = "falling")
           elems == IF by = "key" THEN [i \in DOMAIN a |-> keyOf(a[i].key)] ELSE vals(a)
           Place(p) == CHOOSE i \in DOMAIN a : a[i].key = p.key
       IN IF Mixed(elems) THEN Fails(r)
          ELSE /\ Len(r.v) = Len(a) /\ ToSet(r.v) = ToSet(a)
               /\ InOrder(by, r.v)
               /\ \A i, j \in DOMAIN r.v : i < j /\ Compared(by, r.v[i], r.v[j]) = 0 => Place(r.v[i]) < Place(r.v[j])
  /\ \A want \in {1, -1} :
       LET best == reduceOrder(vals(a), want)
           s == filterSortArrow(a, want = 1)
       IN best = IF Fails(s) THEN Failed ELSE IF s.v = <<>> THEN Failed ELSE s.v[1].val
  /\ \A i, j \in DOMAIN a :
       LET Passes(test) == orderTest(test, a[i].val, a[j].val)
       IN IF ~Orderable(a[i].val, a[j].val) THEN \A t \in {"lt", "le", "gt", "ge"} : Fails(Passes(t))
          ELSE Passes("lt") # Passes("ge") /\ Passes("gt") # Passes("le") /\ Passes("lt") = orderTest("gt", a[j].val, a[i].val)
  /\ LET kept == vals(filterUnique(a, <<>>).v)
     IN \A i, j \in DOMAIN kept : i < j /\ Orderable(kept[i], kept[j]) /\ Order(kept[i], kept[j]) = 0 => Tied(kept[i], kept[j])

Flattened(rows) == FoldLeft(LAMBDA out, row : out \o row, <<>>, rows)

\* The elements of n from start to before end, counted from the end when negative.
Window(vs, start, end) ==
  LET n == Len(vs)
      From(i) == IF i < 0 THEN n + i ELSE i
  IN [i \in 1..n |-> IF From(start) < i /\ i <= From(end) THEN <<vs[i]>> ELSE <<>>]

\* evalSlice takes end - start for the length.  That is not the window's when one bound
\* counts from the end and the other does not, nor when start is before the first element;
\* and a length below zero counts from the end: a[1:-1] leaves out the last two.
Mismeasured(n, start, end) ==
  \/ end < start /\ start # 0
  \/ start < 0 /\ end \in 0..(n - 1)
  \/ start < -n

\* Splitting loses nothing: batch cuts the values into rows of n and a shorter last one,
\* columns is its transpose (row c of one is column c of the other, cell by cell),
\* padding makes both rectangular unless it pads with null, and a window is what its bounds
\* say, negative bounds counted from the end, through the filter and the subscript alike.  A range has every
\* n-th number from one bound to the other, up or down, and no more.
SplitsWhole(a, n) ==
  LET rows == Rows(filterBatch(a, n, <<>>).v)
      cols == Rows(filterColumns(a, n, <<>>).v)
      Padded(grid, height, width) == Len(grid) = height /\ \A i \in 1..height : Len(grid[i]) = width
      tall == (Len(a) + n - 1) \div n
  IN /\ Flattened(rows) = vals(a) /\ \A i \in DOMAIN rows : Len(rows[i]) = n \/ (i = Len(rows) /\ Len(rows[i]) \in 1..n)
     /\ Len(cols) = n /\ \A c \in 1..n : cols[c] = Flattened([r \in DOMAIN rows |-> IF c <= Len(rows[r]) THEN <<rows[r][c]>> ELSE <<>>])
     /\ Padded(Rows(filterBatch(a, n, <<Num(0)>>).v), tall, n) /\ Padded(Rows(filterColumns(a, n, <<Num(0)>>).v), n, tall)
     /\ Rows(filterBatch(a, n, <<Null>>).v) = rows /\ Rows(filterColumns(a, n, <<Null>>).v) = cols
     /\ \A start \in -(Len(a) + 1)..(Len(a) + 1) :
          /\ vals(filterSlice(a, start, <<>>)) = Flattened(Window(vals(a), start, Len(a)))
          /\ \A end \in -(Len(a) + 1)..(Len(a) + 1) :
               ~Mismeasured(Len(a), start, end)
                 => vals(evalSlice(a, start, <<end>>)) = Flattened(Window(vals(a), start, end))
     /\ \A lo, hi \in Int64 :
          LET way == IF lo <= hi THEN 1 ELSE -1
          IN RangeEnds(hi, n, way) => fnRange(lo, hi, n).v = [i \in 1..(Magnitude(hi - lo) \div n + 1) |-> lo + way * n * (i - 1)]
     /\ \A pos \in Int64 : a # <<>> => fnCycle(a, pos) = a[(pos % Len(a)) + 1].val

RECURSIVE Together(_)
\* Merging from the right.
Together(as) == IF Len(as) = 1 THEN as[1] ELSE filterMerge(as[1], Together(Tail(as)))

\* What unique, group_by and the choosing filters make of a collection agree: unique
\* has the first element of every group, every element is in one group, behind an
\* equal key that no earlier group has, in its place; select and reject share the
\* pairs out and keep their keys; find is the first that filter keeps; column is map
\* without nulls; the sums of the groups add to the sum; and they fail on the same elements.  Merging is the same from the left and from the right.
GathersWhole(a, path) ==
  LET groups == filterGroupBy(a, path)
      firsts == filterUnique(a, path)
      got == Of(a, path)
      Choice(keep) == filterSelectAttr(a, path, "lt", Num(8), keep)
      true == filterFilter(a, path)
      half == Len(a) \div 2
      Left(m, b) == filterMerge(filterMerge(SubSeq(a, 1, half), SubSeq(a, half + 1, Len(a))), b)
  IN /\ Fails(groups) <=> AnyFails(got)
     /\ Fails(firsts) <=> AnyFails(got)
     /\ Fails(Choice(TRUE)) <=> Fails(Choice(FALSE))
     /\ ~AnyFails(got) =>
          /\ vals(firsts.v) = [g \in DOMAIN groups.v |-> groups.v[g].items[1]]
          /\ \A g \in DOMAIN groups.v :
               groups.v[g].items = Flattened([i \in DOMAIN a |->
                 IF Equal(got[i], groups.v[g].key) /\ \A h \in 1..(g - 1) : ~Equal(got[i], groups.v[h].key) THEN <<a[i].val>> ELSE <<>>])
          /\ Len(Flattened([g \in DOMAIN groups.v |-> groups.v[g].items])) = Len(a)
          /\ filterFind(a, path) = filterFirst1(true.v)
          /\ Len(path) = 1 => filterColumn(a, path[1]) = Arr(list(SelectSeq(vals(filterMap(a, path).v), LAMBDA x : x.k # "null")))
          /\ (\A i \in DOMAIN got : got[i].k = "int") =>
               filterSum(a, path).v = Wrap(FoldLeft(LAMBDA n, g : n + filterSum(list(g.items), path).v, 0, groups.v))
     /\ ~Fails(Choice(TRUE)) =>
          /\ ToSet(Choice(TRUE).v) \cup ToSet(Choice(FALSE).v) = ToSet(a)
          /\ Len(Choice(TRUE).v) + Len(Choice(FALSE).v) = Len(a)
     /\ Left(half, a) = Together(<<SubSeq(a, 1, half), SubSeq(a, half + 1, Len(a)), a>>)
     /\ IntKeyed(filterMerge(a, a)) = 2 * IntKeyed(a)
     /\ reverseCore(reverseCore(a, TRUE), TRUE) = a /\ filterLast1(reverseCore(a, FALSE)) = filterFirst1(a)
     /\ Rows(filterEntries(a)) = [i \in DOMAIN a |-> <<filterKeys1(a)[i].val, a[i].val>>]
=============================================================================
