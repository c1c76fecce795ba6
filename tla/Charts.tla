------------------------------- MODULE Charts -------------------------------
(***************************************************************************)
(* What a chart shows of a table, and where a dashboard puts its charts    *)
(* (analysis/application/services.py).  A table gains rows one at a time   *)
(* and every chart is drawn of it; tiles come, grow, move and go.  A row   *)
(* has a category, a band and a measure that may not be a number; a        *)
(* quantile is in hundredths.                                              *)
(***************************************************************************)
EXTENDS Statistics

CONSTANTS Categories,    \* the values of the x column, numbers
          Bands,         \* the values of the series column, numbers
          Measures,      \* the numbers of the y column
          NoNumber,      \* what is no number
          StatedOrder,   \* the categories whose order the chart states
          Bins,          \* buckets of a histogram
          ChartLimit,    \* categories shown at most
          MaxRows,
          TileSizes,     \* widths and heights of tiles
          MaxTiles

ASSUME ChartsAssumption ==
  /\ Categories \subseteq Nat /\ Bands \subseteq Nat /\ Measures \subseteq Nat
  /\ NoNumber \notin Measures /\ Bins \in Nat \ {0, 1} /\ MaxRows \in Nat /\ MaxTiles \in Nat
  /\ TileSizes \subseteq (3 .. 12) \X (2 .. 12)

VARIABLES plotted,   \* the rows of the table
          tiles,     \* a dashboard's tiles, in reading order
          relaid     \* was the last change a re-flow of the whole grid?

chartVars == <<plotted, tiles, relaid>>

GridColumns == 12

ChartTypeOK ==
  /\ \A i \in DOMAIN plotted :
       plotted[i] \in [x : Categories, band : Bands, y : Measures \cup {NoNumber}]
  /\ \A i \in DOMAIN tiles : tiles[i].x \in 0 .. GridColumns /\ tiles[i].y \in Nat
  /\ relaid \in BOOLEAN

ChartInit == plotted = <<>> /\ tiles = <<>> /\ relaid = TRUE

-----------------------------------------------------------------------------
(* Charts.                                                                 *)

\* The numbers of some rows, in the rows' order.
Numeric(rows) == SelectSeq([i \in DOMAIN rows |-> rows[i].y], LAMBDA y : y # NoNumber)
Least(ys) == Min({ys[i] : i \in DOMAIN ys})
Most(ys) == Max({ys[i] : i \in DOMAIN ys})

\* The top edge belongs to the last bucket rather than to one of its own.
Bucket(y, low, high) == Min({Bins - 1, ((y - low) * Bins) \div (high - low)})

\* How many values are in each bucket; one bucket when they are all the same.
Histogram(ys) ==
  CASE ys = <<>> -> <<>>
    [] ys # <<>> /\ Least(ys) = Most(ys) -> <<Len(ys)>>
    [] OTHER -> [b \in 1 .. Bins |->
                   Cardinality({i \in DOMAIN ys : Bucket(ys[i], Least(ys), Most(ys)) = b - 1})]

\* Between the two neighbouring order statistics, `percent` of the way up.
QuantileAt(ordered, percent) ==
  LET position == (Len(ordered) - 1) * percent
      low == position \div 100
      high == Min({low + 1, Len(ordered) - 1})
  IN 100 * ordered[low + 1] + (ordered[high + 1] - ordered[low + 1]) * (position - 100 * low)

\* Whiskers reach the furthest value within 1.5 of the box's height, and what is
\* past them is an outlier.
Box(ys) ==
  LET ordered == SortSeq(ys, <)
      q1 == QuantileAt(ordered, 25)
      q3 == QuantileAt(ordered, 75)
      fence == (3 * (q3 - q1)) \div 2
      within == SelectSeq(ordered, LAMBDA y : q1 - fence <= 100 * y /\ 100 * y <= q3 + fence)
      inside == IF within = <<>> THEN ordered ELSE within
  IN [least |-> inside[1], q1 |-> q1, median |-> QuantileAt(ordered, 50), q3 |-> q3,
      most |-> inside[Len(inside)],
      outliers |-> SelectSeq(ordered, LAMBDA y : y < inside[1] \/ y > inside[Len(inside)])]

\* Stated categories first, as stated, and the others after them as they sort.
Place(key) == IF \E i \in DOMAIN StatedOrder : StatedOrder[i] = key
              THEN CHOOSE i \in DOMAIN StatedOrder : StatedOrder[i] = key
              ELSE Len(StatedOrder) + 1
SortedKeys(keys) ==
  SortSeq(SetToSeq(keys),
          LAMBDA a, b : \/ Place(a) < Place(b)
                        \/ Place(a) = Place(b) /\ a < b)
ShownKeys(keys) == SubSeq(SortedKeys(keys), 1, Min({Cardinality(keys), ChartLimit}))

\* A group's measure; nothing for a group without a number.  A count is of rows
\* and a mean is the sum beside what it is divided by.
Aggregated(rows, how) ==
  LET ys == Numeric(rows) IN
  CASE how = "count" -> {Len(rows)}
    [] how # "count" /\ ys = <<>> -> {}
    [] how = "none" /\ ys # <<>> -> {ys[1]}
    [] how = "sum" /\ ys # <<>> -> {Total(ys)}
    [] how = "mean" /\ ys # <<>> -> {<<Total(ys), Len(ys)>>}
    [] how = "min" /\ ys # <<>> -> {Least(ys)}
    [] how = "max" /\ ys # <<>> -> {Most(ys)}

Aggregations == {"none", "sum", "mean", "min", "max", "count"}

\* Categories by bands, the shape of a heatmap and of a chart split by series:
\* the limit cuts categories, never bands.
GridOf(rows, how) ==
  LET xs == ShownKeys({rows[i].x : i \in DOMAIN rows})
      bands == SetToSortSeq({rows[i].band : i \in DOMAIN rows}, <)
  IN [b \in DOMAIN bands |-> [x \in DOMAIN xs |->
        Aggregated(SelectSeq(rows, LAMBDA r : r.x = xs[x] /\ r.band = bands[b]), how)]]

-----------------------------------------------------------------------------
(* A dashboard's tiles.                                                    *)

\* Beside the last tile if it fits, otherwise on a row below it.
NextSlot(width) ==
  IF tiles = <<>> THEN [x |-> 0, y |-> 0]
  ELSE LET last == tiles[Len(tiles)] IN
       IF last.x + last.width + width <= GridColumns
       THEN [x |-> last.x + last.width, y |-> last.y]
       ELSE [x |-> 0, y |-> last.y + last.height]

\* Mutated: a new row begins as far down as the tile that begins it is high.
FlowByTile(so, tile) ==
  LET wraps == so.x + tile.width > GridColumns
      x == IF wraps THEN 0 ELSE so.x
      y == IF wraps THEN so.y + tile.height ELSE so.y
  IN [placed |-> Append(so.placed, [tile EXCEPT !.x = x, !.y = y]),
      x |-> x + tile.width, y |-> y,
      high |-> Max({IF wraps THEN 0 ELSE so.high, tile.height})]

\* One tile of a re-flow, after those placed so far: a new row begins below the
\* highest tile of the row before it.
Flow(so, tile) ==
  LET wraps == so.x + tile.width > GridColumns
      x == IF wraps THEN 0 ELSE so.x
      y == IF ~wraps THEN so.y ELSE so.y + (IF so.high = 0 THEN tile.height ELSE so.high)
  IN [placed |-> Append(so.placed, [tile EXCEPT !.x = x, !.y = y]),
      x |-> x + tile.width, y |-> y,
      high |-> Max({IF wraps THEN 0 ELSE so.high, tile.height})]

Relayout(ts) == FoldLeft(Flow, [placed |-> <<>>, x |-> 0, y |-> 0, high |-> 0], ts).placed

-----------------------------------------------------------------------------
AddRow(x, band, y) ==
  /\ tiles = <<>> /\ Len(plotted) < MaxRows
  /\ plotted' = Append(plotted, [x |-> x, band |-> band, y |-> y])
  /\ UNCHANGED <<tiles, relaid>>

PlaceTile(size) ==
  /\ plotted = <<>> /\ Len(tiles) < MaxTiles
  /\ tiles' = Append(tiles, [x |-> NextSlot(size[1]).x, y |-> NextSlot(size[1]).y,
                             width |-> size[1], height |-> size[2]])
  /\ relaid' = FALSE
  /\ UNCHANGED plotted

\* A tile that is made wider stays where it is, and so do the others.
ResizeTile(i, size) ==
  /\ tiles' = [tiles EXCEPT ![i].width = size[1], ![i].height = size[2]]
  /\ relaid' = FALSE
  /\ UNCHANGED plotted

\* Earlier or later in reading order, as far as there is room.
MoveTile(i, offset) ==
  /\ LET target == Max({1, Min({i + offset, Len(tiles)})} )
         rest == RemoveAt(tiles, i)
     IN /\ target # i
        /\ tiles' = Relayout(InsertAt(rest, target, tiles[i]))
  /\ relaid' = TRUE
  /\ UNCHANGED plotted

RemoveTileAt(i) ==
  /\ tiles' = Relayout(RemoveAt(tiles, i))
  /\ relaid' = TRUE
  /\ UNCHANGED plotted

ChartNext ==
  \/ \E x \in Categories, band \in Bands, y \in Measures \cup {NoNumber} : AddRow(x, band, y)
  \/ \E size \in TileSizes : PlaceTile(size)
  \/ \E i \in DOMAIN tiles : \/ \E size \in TileSizes : ResizeTile(i, size)
                             \/ \E offset \in {-1, 1, 2} : MoveTile(i, offset)
                             \/ RemoveTileAt(i)

ChartSpec == ChartInit /\ [][ChartNext]_chartVars

-----------------------------------------------------------------------------
Overlap(s, t) == /\ s.x < t.x + t.width /\ t.x < s.x + s.width
                 /\ s.y < t.y + t.height /\ t.y < s.y + s.height

\* A re-flow leaves every tile on the grid and no two on each other, whatever
\* sizes and places the edits before it left.
ReflowClears ==
  relaid => /\ \A i \in DOMAIN tiles : tiles[i].x + tiles[i].width <= GridColumns
            /\ \A i, j \in DOMAIN tiles : i # j => ~Overlap(tiles[i], tiles[j])

\* No row is lost or counted twice on the way to a chart: a histogram counts
\* every number once, a value of a box is within its whiskers or an outlier and
\* the quartiles are in order, the cells of a grid add up to the rows of the
\* categories shown, and stated categories lead in the order stated.
NothingLostInCharts ==
  LET ys == Numeric(plotted)
      keys == {plotted[i].x : i \in DOMAIN plotted}
      counts == GridOf(plotted, "count")
      sums == GridOf(plotted, "sum")
      shown == {ShownKeys(keys)[i] : i \in DOMAIN ShownKeys(keys)}
  IN /\ Total(Histogram(ys)) = Len(ys)
     /\ ys # <<>> =>
          LET box == Box(ys) IN
          /\ box.q1 <= box.median /\ box.median <= box.q3
          /\ Len(SelectSeq(ys, LAMBDA y : box.least <= y /\ y <= box.most))
               + Len(box.outliers) = Len(ys)
     /\ Total([b \in DOMAIN counts |->
                 Total([x \in DOMAIN counts[b] |-> Max(counts[b][x])])])
          = Len(SelectSeq(plotted, LAMBDA r : r.x \in shown))
     /\ Total([b \in DOMAIN sums |->
                 Total([x \in DOMAIN sums[b] |-> Max(sums[b][x] \cup {0})])])
          = Total(Numeric(SelectSeq(plotted, LAMBDA r : r.x \in shown)))
     /\ \A i, j \in DOMAIN StatedOrder :
          (i < j /\ StatedOrder[j] \in shown /\ StatedOrder[i] \in keys)
            => StatedOrder[i] \in shown

\* What a page of charts shows is what was counted, laid out side by side.
ChartLaws == ReflowClears /\ NothingLostInCharts
=============================================================================
