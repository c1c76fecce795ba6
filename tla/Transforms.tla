----------------------------- MODULE Transforms -----------------------------
(***************************************************************************)
(* The transforms a pipeline is written in, over tables of readings: a     *)
(* series, a moment and a value.  The same rows may be read again in       *)
(* another order: a store returns them as it likes.  A cell is null, a     *)
(* number, a numeral (text that reads as a number) or a word; fractions    *)
(* are pairs <<numerator, denominator>>, and <<>> is no answer.            *)
(***************************************************************************)
EXTENDS Statistics

CONSTANTS Readings,     \* what a source may hold
          MaxReadings,
          WindowSize        \* readings in a trailing window

ASSUME TransformsAssumption == MaxReadings \in Nat /\ WindowSize \in Nat \ {0, 1}

VARIABLES arrived,  \* the rows, as they first arrived
          reread    \* their order when they are read again

transformVars == <<arrived, reread>>

Null == [is |-> "null", reads |-> 0]
Word == [is |-> "word", reads |-> 0]
Num(n) == [is |-> "number", reads |-> n]

\* as_number reads text; _is_number does not.
HasNumber(c) == c.is \in {"number", "numeral"}
IsNumber(c) == c.is = "number"
AsNumber(c) == IF HasNumber(c) THEN Num(c.reads) ELSE Null
AsText(c) == IF IsNumber(c) THEN [c EXCEPT !.is = "numeral"] ELSE c

NumbersOf(cells) == LET kept == SelectSeq(cells, HasNumber)
                    IN [i \in DOMAIN kept |-> kept[i].reads]

\* A column that mixes numbers and text is text.
ToArray(cells) ==
  IF /\ \E i \in DOMAIN cells : IsNumber(cells[i])
     /\ \E i \in DOMAIN cells : cells[i].is \in {"word", "numeral"}
  THEN [i \in DOMAIN cells |-> AsText(cells[i])] ELSE cells

SetValues(table, cells) == LET array == ToArray(cells)
                           IN [i \in DOMAIN table |-> [table[i] EXCEPT !.v = array[i]]]
Values(table) == [i \in DOMAIN table |-> table[i].v]
FromRows(rows) == SetValues(rows, Values(rows))
Groups(table) == {table[i].k : i \in DOMAIN table}

-----------------------------------------------------------------------------
(* Statistics of a non-empty sequence of numbers.                          *)

\* `size` rows, of which ys are the numbers.
Measure(how, ys, size) ==
  CASE how = "count" -> <<size, 1>>
    [] how # "count" /\ ys = <<>> -> <<>>
    [] how = "sum" /\ ys # <<>> -> <<Total(ys), 1>>
    [] how = "mean" /\ ys # <<>> -> <<Total(ys), Len(ys)>>
    [] how = "min" /\ ys # <<>> -> <<Min(Range(ys)), 1>>
    [] how = "max" /\ ys # <<>> -> <<Max(Range(ys)), 1>>
    [] how = "median" /\ ys # <<>> -> Median(ys)

Slope(xs, ys) == IF Len(xs) < 2 \/ Deviations(xs, xs) = 0 THEN <<>>
                 ELSE <<Deviations(xs, ys), Deviations(xs, xs)>>

\* Of a line with that slope; a flat series has none.
RSquared(xs, ys) == IF Deviations(ys, ys) = 0 THEN <<>>
                    ELSE <<Deviations(xs, ys) * Deviations(xs, ys),
                           Deviations(xs, xs) * Deviations(ys, ys)>>

WindowStatistic(how, xs, ys) ==
  CASE how = "range" -> <<Max(Range(ys)) - Min(Range(ys)), 1>>
    [] how = "slope" -> Slope(xs, ys)
    [] how = "r_squared" -> IF Slope(xs, ys) = <<>> THEN <<>> ELSE RSquared(xs, ys)
    [] OTHER -> Measure(how, ys, Len(ys))

-----------------------------------------------------------------------------
(* Rows kept, ordered and marked.                                          *)

\* table_ops.sort_table: stable, and nulls last whichever way.
Precedes(c, d, descending) ==
  /\ c # Null
  /\ d = Null \/ IF descending THEN c.reads > d.reads ELSE c.reads < d.reads

Positions(table, Test(_)) == SelectSeq([i \in DOMAIN table |-> i], Test)
Sorted(table, positions, column, descending) ==
  SortSeq(positions, LAMBDA i, j :
    LET c == table[i][column]
        d == table[j][column]
    IN Precedes(c, d, descending) \/ (~Precedes(d, c, descending) /\ i < j))

Take(table, positions) == [i \in DOMAIN positions |-> table[positions[i]]]
SortRows(table, descending) ==
  Take(table, Sorted(table, [i \in DOMAIN table |-> i], "t", descending))

LimitRows(table, count, fromEnd) ==
  IF fromEnd THEN SubSeq(table, Max({0, Len(table) - count}) + 1, Len(table))
             ELSE SubSeq(table, 1, Min({count, Len(table)}))

\* The first row of each key, in the original order.
DropDuplicates(table, column) ==
  Take(table, Positions(table, LAMBDA i :
    \A j \in 1 .. i - 1 : table[j][column] # table[i][column]))

\* filter_rows compares numbers only, flag_rows what reads as one; of the
\* rows all of which are filtered out, nothing is made.
Matches(c, op, bound) ==
  CASE op = "not_empty" -> c # Null
    [] op = "is_empty" -> c = Null
    [] op = "gt" -> c.reads > bound
    [] op = "lte" -> c.reads <= bound
Keeps(c, op, bound) == (op \in {"gt", "lte"} => IsNumber(c)) /\ Matches(c, op, bound)
Flags(c, op, bound) == (op \in {"gt", "lte"} => HasNumber(c)) /\ Matches(c, op, bound)
FilterRows(table, op, bound) == SelectSeq(table, LAMBDA row : Keeps(row.v, op, bound))
FlagRows(table, op, bound) == [i \in DOMAIN table |-> Flags(table[i].v, op, bound)]

CastTypes(table, target) ==
  SetValues(table, [i \in DOMAIN table |->
    IF target = "text" THEN AsText(table[i].v) ELSE AsNumber(table[i].v)])
FillMissing(table, replacement) ==
  SetValues(table, [i \in DOMAIN table |->
    IF table[i].v = Null THEN replacement ELSE table[i].v])

\* 0 below the first edge, Len(edges) above the last; the top band is closed.
BinNumeric(n, edges) ==
  IF n < edges[1] THEN 0
  ELSE IF n = edges[Len(edges)] THEN
         Min({i \in 1 .. Len(edges) - 1 : n < edges[i + 1] \/ i = Len(edges) - 1})
  ELSE IF n > edges[Len(edges)] THEN Len(edges)
  ELSE Min({i \in 1 .. Len(edges) - 1 : n < edges[i + 1]})

\* Highest first; equal values keep their order; 0 is no rank.
RankRows(table) ==
  LET ranked == Sorted(table, Positions(table, LAMBDA i : HasNumber(table[i].v)), "v", TRUE)
  IN [i \in DOMAIN table |-> IF i \in Range(ranked) THEN CHOOSE r \in DOMAIN ranked : ranked[r] = i
                                                    ELSE 0]

\* Scores beyond `threshold` deviations (squares of them: no root is taken).
ZscoreOutliers(table, threshold) ==
  LET kept == SelectSeq(Values(table), IsNumber)
      ys == [i \in DOMAIN kept |-> kept[i].reads]
      n == Len(ys)
      Off(y) == n * y - Total(ys)
  IN IF n < 2 THEN {}
     ELSE {i \in DOMAIN table : IsNumber(table[i].v) /\
             Off(table[i].v.reads) * Off(table[i].v.reads) * (n - 1)
               > threshold * threshold * n * Deviations(ys, ys)}

-----------------------------------------------------------------------------
(* Aggregation.                                                            *)

OfGroup(table, key) == SelectSeq(table, LAMBDA row : row.k = key)

\* Over genuine numbers; a group without one is not in the answer.
GroupAggregate(table, how) ==
  LET Genuine(key) == NumbersOf(SelectSeq(Values(OfGroup(table, key)), IsNumber))
  IN [key \in {g \in Groups(table) : Genuine(g) # <<>>} |->
        Measure(how, Genuine(key), Len(Genuine(key)))]

\* Over what reads as a number; every group is in the answer.
Summarise(table, how) ==
  [key \in Groups(table) |->
     [row_count |-> Len(OfGroup(table, key)),
      measure |-> Measure(how, NumbersOf(Values(OfGroup(table, key))),
                          Len(OfGroup(table, key)))]]

\* A reading without a moment belongs to no period.
Resample(table, period, how) ==
  LET Cell(row) == <<row.k, row.t.reads \div period>>
      Dated == SelectSeq(table, LAMBDA row : row.t # Null)
      In(cell) == SelectSeq(Dated, LAMBDA row : Cell(row) = cell)
  IN [cell \in {Cell(row) : row \in Range(Dated)} |->
        [sample_count |-> Len(In(cell)),
         measure |-> Measure(how, NumbersOf(Values(In(cell))), Len(In(cell)))]]

\* The one value a cell shows; text has no mean.
Collapse(cells, how) ==
  IF cells = <<>> THEN Null
  ELSE IF how = "first" THEN Head(cells)
  ELSE IF how = "count" THEN Num(Len(cells))
  ELSE IF NumbersOf(cells) = <<>> \/ how = "last" THEN Last(cells)
  ELSE Num(Measure(how, NumbersOf(cells), Len(cells))[1])

\* A row per moment, a column per series.
PivotWider(table, how) ==
  [cell \in {row.t : row \in Range(table)} \X Groups(table) |->
     Collapse(Values(SelectSeq(table, LAMBDA row : <<row.t, row.k>> = cell)), how)]

UnpivotLonger(wide) ==
  {[k |-> cell[2], t |-> cell[1], v |-> wide[cell]] : cell \in {c \in DOMAIN wide : wide[c] # Null}}

\* A row for each match; rows without one where `how` keeps them.
Join(table, right, how) ==
  LET Left(i) == {j \in DOMAIN right : right[j] = table[i].k}
      Right(j) == {i \in DOMAIN table : table[i].k = right[j]}
  IN {<<i, j>> \in (DOMAIN table) \X (DOMAIN right) : table[i].k = right[j]}
     \cup (IF how = "inner" THEN {} ELSE {<<i, 0>> : i \in {x \in DOMAIN table : Left(x) = {}}})
     \cup (IF how # "full" THEN {} ELSE {<<0, j>> : j \in {y \in DOMAIN right : Right(y) = {}}})
UnmatchedLeft(table, right, how) == Max({Len(table) - Cardinality(Join(table, right, how)), 0})

Profile(table) ==
  [null_count |-> Cardinality({i \in DOMAIN table : table[i].v = Null}),
   distinct_count |-> Cardinality(Range(Values(table)) \ {Null})]

-----------------------------------------------------------------------------
(* Windows: per series, in time order, written back to the row.            *)

\* Mutated: in the order of arrival.
SegmentAsArrived(table, key) == Positions(table, LAMBDA i : table[i].k = key)

Segment(table, key) ==
  Sorted(table, Positions(table, LAMBDA i : table[i].k = key), "t", FALSE)

\* The positions of i's series up to i.
RowsUpTo(table, i) == LET segment == Segment(table, table[i].k)
                  IN SubSeq(segment, 1, CHOOSE at \in DOMAIN segment : segment[at] = i)

LagColumn(table, periods) ==
  [i \in DOMAIN table |->
     LET segment == Segment(table, table[i].k)
         source == Len(RowsUpTo(table, i)) - periods
     IN IF source \in DOMAIN segment THEN table[segment[source]].v ELSE Null]

RateOfChange(table) ==
  [i \in DOMAIN table |->
     LET past == RowsUpTo(table, i)
         before == table[past[Len(past) - 1]]
     IN IF /\ Len(past) > 1
           /\ HasNumber(table[i].v) /\ HasNumber(before.v) /\ table[i].t # Null
           /\ before.t.reads < table[i].t.reads
        THEN <<table[i].v.reads - before.v.reads, table[i].t.reads - before.t.reads>>
        ELSE <<>>]

\* The last readings with a number; one without leaves the window as it was.
Trailing(table, past, numbers) ==
  LET numbered == SelectSeq(past, LAMBDA i : table[i].v.is \in numbers)
  IN SubSeq(numbered, Max({1, Len(numbered) - WindowSize + 1}), Len(numbered))
ReadsOf(table, positions) == [i \in DOMAIN positions |-> table[positions[i]].v.reads]

\* The moments are the axis only where a slope is among what is asked; else it
\* is the position of the row.
RollingStats(table, how, asked, minimum) ==
  [i \in DOMAIN table |->
     LET window == Trailing(table, RowsUpTo(table, i), {"number", "numeral"})
         Axis(j) == IF "slope" \in asked /\ table[j].t # Null THEN table[j].t.reads ELSE j - 1
         xs == [j \in DOMAIN window |-> Axis(window[j])]
     IN IF Len(window) < minimum THEN <<>>
        ELSE WindowStatistic(how, xs, ReadsOf(table, window))]

\* One window over the whole table, as it stands.
MovingAverage(table) ==
  [i \in DOMAIN table |->
     LET window == Trailing(table, [j \in 1 .. i |-> j], {"number"})
     IN Measure("mean", ReadsOf(table, window), Len(window))]

LinearTrend(table, key, minimum) ==
  LET usable == SelectSeq(Segment(table, key),
                          LAMBDA i : HasNumber(table[i].v) /\ table[i].t # Null)
      xs == [j \in DOMAIN usable |-> table[usable[j]].t.reads - table[usable[1]].t.reads]
      ys == ReadsOf(table, usable)
      slope == IF Len(usable) < minimum THEN <<>> ELSE Slope(xs, ys)
      r2 == RSquared(xs, ys)
      change == Last(ys) - ys[1]
  IN [points |-> Len(usable),
      slope |-> slope,
      direction |->
        IF slope = <<>> THEN "unknown"
        ELSE IF r2 # <<>> /\ 5 * r2[1] < r2[2] THEN "unstable"
        ELSE IF ys[1] = 0 \/ 50 * Abs(change) < Abs(ys[1]) THEN "stable"
        ELSE IF slope[1] > 0 THEN "increasing" ELSE "decreasing"]

\* Of moments and values that are both there.
Correlation(table, key, minimum) ==
  LET both == SelectSeq(OfGroup(table, key), LAMBDA row : HasNumber(row.v) /\ row.t # Null)
      xs == [i \in DOMAIN both |-> both[i].t.reads]
      ys == [i \in DOMAIN both |-> both[i].v.reads]
  IN [points |-> Len(both),
      sign |-> IF Len(both) < minimum \/ Deviations(xs, xs) * Deviations(ys, ys) = 0 THEN <<>>
               ELSE <<Deviations(xs, ys)>>]

-----------------------------------------------------------------------------
(* A source and the order it is read in.                                   *)

\* A row more; the next reading may put it anywhere.
Arrive(row, at) ==
  /\ Len(arrived) < MaxReadings
  /\ arrived' = Append(arrived, row)
  /\ reread' = InsertAt(reread, at, Len(arrived) + 1)

TransformInit == arrived = <<>> /\ reread = <<>>
TransformNext ==
  \E row \in Readings : \E at \in 1 .. Len(arrived) + 1 : Arrive(row, at)
TransformSpec == TransformInit /\ [][TransformNext]_transformVars

TransformTypeOK ==
  /\ arrived \in Seq(Readings) /\ Len(arrived) <= MaxReadings
  /\ DOMAIN reread = DOMAIN arrived /\ Range(reread) = DOMAIN arrived

Readings1 == FromRows(arrived)
Readings2 == FromRows(Take(arrived, reread))

-----------------------------------------------------------------------------
(* Laws.                                                                   *)

\* No series has two rows of one moment.
DistinctMoments ==
  \A i, j \in DOMAIN arrived :
    arrived[i].k = arrived[j].k /\ arrived[i].t = arrived[j].t => i = j

SameRows(one, other) == \A i \in DOMAIN reread : other[i] = one[reread[i]]

WindowsFollowTime ==
  DistinctMoments =>
    /\ \A periods \in {-1, 1, 2} : SameRows(LagColumn(Readings1, periods), LagColumn(Readings2, periods))
    /\ SameRows(RateOfChange(Readings1), RateOfChange(Readings2))
    /\ \A how \in {"mean", "max", "median", "range"} :
         SameRows(RollingStats(Readings1, how, {how}, 2), RollingStats(Readings2, how, {how}, 2))
    /\ (\A i \in DOMAIN arrived : arrived[i].t # Null) =>
         \A how \in {"slope", "r_squared"} :
           SameRows(RollingStats(Readings1, how, {how, "slope"}, 2),
                    RollingStats(Readings2, how, {how, "slope"}, 2))
    /\ \A key \in Groups(arrived) :
         LinearTrend(Readings1, key, 2) = LinearTrend(Readings2, key, 2)

\* A lead undoes a lag, and a line rises when its ends' correlation does.
WindowsAgree ==
  /\ \A i, j \in DOMAIN Readings1 :
       LET segment == Segment(Readings1, Readings1[i].k)
       IN (\E at \in 1 .. Len(segment) - 1 : segment[at] = i /\ segment[at + 1] = j)
            => /\ LagColumn(Readings1, 1)[j] = Readings1[i].v
               /\ LagColumn(Readings1, -1)[i] = Readings1[j].v
  /\ \A key \in Groups(arrived) :
       LET trend == LinearTrend(Readings1, key, 2)
           both == Correlation(Readings1, key, 2)
       IN /\ trend.points = both.points
          /\ trend.direction = "increasing" => both.sign # <<>> /\ both.sign[1] > 0
          /\ trend.direction = "decreasing" => both.sign # <<>> /\ both.sign[1] < 0
  /\ Cardinality(Groups(arrived)) = 1 /\ (\A i \in DOMAIN arrived : Readings1[i].v.is # "numeral") =>
       LET undated == [i \in DOMAIN arrived |-> [Readings1[i] EXCEPT !.t = Null]]
       IN MovingAverage(undated) = RollingStats(undated, "mean", {"mean"}, 1)

SumOver(answers, Part(_)) ==
  FoldFunction(LAMBDA x, y : x + y, 0, [a \in DOMAIN answers |-> Part(answers[a])])
Summed(answer) == IF answer = <<>> THEN 0 ELSE answer[1]

\* However rows are grouped, counts add up to the rows and sums to the total.
TotalsKept ==
  LET total == Total(NumbersOf(Values(Readings1)))
      dated == SelectSeq(Readings1, LAMBDA row : row.t # Null)
      cast == CastTypes(Readings1, "number")
  IN /\ SumOver(Summarise(Readings1, "sum"), LAMBDA a : a.row_count) = Len(arrived)
     /\ SumOver(Summarise(Readings1, "sum"), LAMBDA a : Summed(a.measure)) = total
     /\ \A period \in {1, 2} :
          /\ SumOver(Resample(Readings1, period, "sum"), LAMBDA a : a.sample_count) = Len(dated)
          /\ SumOver(Resample(Readings1, period, "sum"), LAMBDA a : Summed(a.measure))
               = Total(NumbersOf(Values(dated)))
     /\ \A how \in {"sum", "mean", "min", "max"} :
          LET genuine == GroupAggregate(cast, how)
          IN \A key \in Groups(arrived) :
               Summarise(Readings1, how)[key].measure
                 = IF key \in DOMAIN genuine THEN genuine[key] ELSE <<>>
     /\ \A how \in {"sum", "mean", "min", "max", "median", "count"} :
          /\ Summarise(Readings1, how) = Summarise(Readings2, how)
          /\ Resample(Readings1, 2, how) = Resample(Readings2, 2, how)
          /\ GroupAggregate(Readings1, "max") = GroupAggregate(Readings2, "max")

\* A pivot is undone where no cell holds two readings; where one does, it does
\* not depend on the order they are in as long as one of them is a number.
PivotsUndone ==
  /\ DistinctMoments =>
       UnpivotLonger(PivotWider(Readings1, "last"))
         = {row \in Range(Readings1) : row.v # Null}
  /\ \A how \in {"mean", "sum", "min", "max", "count"} :
       \A cell \in DOMAIN PivotWider(Readings1, how) :
         (\E row \in Range(Readings1) : <<row.t, row.k>> = cell /\ HasNumber(row.v)) =>
           PivotWider(Readings1, how)[cell] = PivotWider(Readings2, how)[cell]

RowsAccounted ==
  LET sorted == SortRows(Readings1, FALSE)
      reversed == SortRows(Readings1, TRUE)
      ranks == RankRows(Readings1)
      firsts == DropDuplicates(Readings1, "t")
  IN /\ \A i \in 1 .. Len(sorted) - 1 :
          /\ sorted[i].t = Null => sorted[i + 1].t = Null
          /\ reversed[i].t = Null => reversed[i + 1].t = Null
          /\ sorted[i + 1].t # Null => sorted[i].t.reads <= sorted[i + 1].t.reads
     /\ ToBag(sorted) = ToBag(Readings1) /\ ToBag(reversed) = ToBag(Readings1)
     /\ LimitRows(sorted, 1, FALSE) \o LimitRows(sorted, Len(sorted) - 1, TRUE) = sorted
     /\ DropDuplicates(firsts, "t") = firsts
     /\ {row.t : row \in Range(firsts)} = {row.t : row \in Range(Readings1)}
     /\ DropDuplicates(sorted, "t")
          = SortRows(firsts, FALSE)
     /\ Range(ranks) \ {0} = 1 .. Len(NumbersOf(Values(Readings1)))
     /\ \A i, j \in DOMAIN ranks :
          (0 < ranks[i] /\ ranks[i] < ranks[j]) =>
            \/ Readings1[i].v.reads > Readings1[j].v.reads
            \/ Readings1[i].v.reads = Readings1[j].v.reads /\ i < j
     /\ Profile(Readings1).distinct_count + Min({Profile(Readings1).null_count, 1})
          = Len(DropDuplicates(Readings1, "v"))

\* What a filter keeps, a flag marks; what it drops as empty, a fill fills.
MarksAgree ==
  /\ \A op \in {"not_empty", "is_empty", "gt", "lte"} :
       Len(FilterRows(Readings1, op, 1))
         <= Cardinality({i \in DOMAIN arrived : FlagRows(Readings1, op, 1)[i]})
  /\ FilterRows(FillMissing(Readings1, Num(0)), "is_empty", 0) = <<>>
  /\ Len(FilterRows(Readings1, "not_empty", 0)) + Profile(Readings1).null_count = Len(arrived)
  /\ \A threshold \in {1, 2} :
       Cardinality(ZscoreOutliers(Readings1, threshold)) * threshold * threshold
         <= Len(NumbersOf(Values(Readings1)))
  /\ \A edges \in {<<1, 3>>, <<0, 1, 3>>, <<1, 1, 3>>, <<1, 3, 3>>} :
       \A n, m \in 0 .. 4 :
         /\ n <= m => BinNumeric(n, edges) <= BinNumeric(m, edges)
         /\ BinNumeric(n, edges) \in 1 .. Len(edges) - 1 <=> edges[1] <= n /\ n <= edges[Len(edges)]

\* Inner, left and full joins contain one another, and the rows reported as
\* unmatched are, where the right side has one row for each key.
JoinsNest ==
  \A right \in {<<>>, <<"A">>, <<"A", "A">>, <<"A", "B">>, <<"C">>} :
    /\ Join(Readings1, right, "inner") \subseteq Join(Readings1, right, "left")
    /\ Join(Readings1, right, "left") \subseteq Join(Readings1, right, "full")
    /\ DOMAIN arrived \subseteq {pair[1] : pair \in Join(Readings1, right, "left")}
    /\ IsInjective(right) =>
         UnmatchedLeft(Readings1, right, "inner")
           = Cardinality({i \in DOMAIN arrived : arrived[i].k \notin Range(right)})

\* Whatever rows a source holds and in whatever order it returns them: answers
\* computed per series in time order do not depend on that order, aggregates
\* lose and double nothing, a pivot is undone by its inverse, sorting, ranking
\* and deduplication keep which rows there are, filters and flags agree, and
\* joins contain one another ("it sorts within the group by order_by before it
\* computes anything, and writes its answer back to the row it came from").
TransformLaws ==
  /\ WindowsFollowTime /\ WindowsAgree /\ TotalsKept /\ PivotsUndone
  /\ RowsAccounted /\ MarksAgree /\ JoinsNest
=============================================================================
