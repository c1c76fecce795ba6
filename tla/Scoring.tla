------------------------------- MODULE Scoring -------------------------------
(***************************************************************************)
(* One record and the models that read it: a scorecard, a risk matrix and  *)
(* an ordered list of rules.  Readings come and go one at a time.  Scores  *)
(* are in hundredths of the scale and spans divide it, so nothing is       *)
(* rounded; what was divided by is kept beside the sum.                    *)
(***************************************************************************)
EXTENDS Integers, FiniteSets, Sequences, Folds

CONSTANTS Columns,      \* what a record may hold
          Shown,        \* the readings a column may show
          NoReading,
          Components,   \* of the scorecard
          MinCoverage,  \* share of the weight, in hundredths
          Edges,        \* boundaries of the two axes' levels
          Grid,         \* Grid[likelihood][consequence]
          SeverityOrder,
          Rules         \* in order: [name, column, above, then]

ASSUME ScoringAssumption ==
  /\ Shown \subseteq Nat /\ NoReading \notin Shown
  /\ \A i \in DOMAIN Components : Components[i].column \in Columns /\ Components[i].weight > 0
  /\ MinCoverage \in 0 .. 100

VARIABLE record

Records == [Columns -> Shown \cup {NoReading}]

SumFor(S, Of(_)) == MapThenFoldSet(LAMBDA x, y : x + y, 0, Of, LAMBDA T : CHOOSE t \in T : TRUE, S)

-----------------------------------------------------------------------------
(* The scorecard.                                                          *)

Clamp(n) == IF n < 0 THEN 0 ELSE IF n > 100 THEN 100 ELSE n

\* "lower is better" is a bad value above the good one.
Linear(n, good, bad) == IF bad > good THEN Clamp((100 * (bad - n)) \div (bad - good))
                                      ELSE Clamp((100 * (n - bad)) \div (good - bad))

\* The first band that fits; the last one for a value beyond them all.
Fits(bands, n) == LET fitting == {i \in DOMAIN bands : n <= bands[i].upto}
                  IN IF fitting = {} THEN Len(bands)
                     ELSE CHOOSE i \in fitting : \A j \in fitting : i <= j

\* Mutated: what is not measured is taken to be sound.
AssumedSound(component) == {100}

AbsentScore(component) == CASE component.missing = "skip" -> {}
                            [] component.missing = "best" -> {100}
                            [] component.missing = "worst" -> {0}
                            [] component.missing = "neutral" -> {component.neutral_score}

\* No element where the component does not apply.
SubScore(component, reading) ==
  IF reading = NoReading THEN AbsentScore(component)
  ELSE CASE component.kind = "linear" -> {Linear(reading, component.good, component.bad)}
         [] component.kind = "bands" ->
              {Clamp(component.bands[Fits(component.bands, reading)].score)}
         [] component.kind = "boolean" -> {IF reading = 1 THEN 0 ELSE 100}
         [] component.kind = "passthrough" -> {Clamp(reading)}

Applied(r) == {i \in DOMAIN Components : SubScore(Components[i], r[Components[i].column]) # {}}
SubOf(i, r) == CHOOSE s \in SubScore(Components[i], r[Components[i].column]) : TRUE

Score(r) ==
  LET used == SumFor(Applied(r), LAMBDA i : Components[i].weight)
      whole == SumFor(DOMAIN Components, LAMBDA i : Components[i].weight)
  IN [weighted |-> SumFor(Applied(r), LAMBDA i : Components[i].weight * SubOf(i, r)),
      used |-> used,
      withheld |-> used = 0 \/ 100 * used < MinCoverage * whole]

\* Named by the two weakest, the heavier first among equals.
Weakest(r) ==
  LET Weaker(i, j) == \/ SubOf(i, r) < SubOf(j, r)
                      \/ SubOf(i, r) = SubOf(j, r) /\ Components[i].weight > Components[j].weight
                      \/ SubOf(i, r) = SubOf(j, r) /\ Components[i].weight = Components[j].weight
                         /\ i < j
  IN {i \in Applied(r) : Cardinality({j \in Applied(r) : Weaker(j, i)}) < 2}

\* scorecard_from_config reads nothing it could not score by.
ScorecardReads ==
  \A i \in DOMAIN Components :
    /\ Components[i].weight > 0
    /\ Components[i].kind = "linear" => Components[i].good # Components[i].bad
    /\ Components[i].kind = "bands" => Components[i].bands # <<>>
    /\ \A band \in 1 .. Len(Components[i].bands) - 1 :
         Components[i].bands[band].upto <= Components[i].bands[band + 1].upto

\* check_dataset: the components whose column a dataset lacks.
Lacking(columns) == {i \in DOMAIN Components : Components[i].column \notin columns}

\* Of a table: how many of its rows are scored, and how many withheld.
ScoreTable(rows) ==
  LET withheld == {i \in DOMAIN rows : Score(rows[i]).withheld}
  IN [scored |-> Len(rows) - Cardinality(withheld), withheld |-> Cardinality(withheld)]

-----------------------------------------------------------------------------
(* The risk matrix.                                                        *)

\* An axis without a reading takes its default, if it has one.
LevelOf(axis, reading) ==
  IF reading = NoReading THEN axis.default
  ELSE LET at == {i \in DOMAIN axis.bands : reading <= axis.bands[i]}
       IN IF at = {} THEN {Len(axis.bands) + 1}
          ELSE {CHOOSE i \in at : \A j \in at : i <= j}

\* The rank of the cell read, or nothing.
Assess(r) ==
  {CHOOSE rank \in DOMAIN SeverityOrder : SeverityOrder[rank] = Grid[l][c] :
     l \in LevelOf(Edges.likelihood, r[Edges.likelihood.column]),
     c \in LevelOf(Edges.consequence, r[Edges.consequence.column])}

\* matrix_from_config: the grid fits its axes and every cell has a rank.
MatrixReads ==
  /\ Len(Grid) = Len(Edges.likelihood.bands) + 1
  /\ \A l \in DOMAIN Grid : Len(Grid[l]) = Len(Edges.consequence.bands) + 1
  /\ \A l \in DOMAIN Grid : \A c \in DOMAIN Grid[l] :
       \E rank \in DOMAIN SeverityOrder : SeverityOrder[rank] = Grid[l][c]

\* check_dataset: the axes no record of a dataset can be placed on.
Unplaceable(columns) ==
  {axis \in {Edges.likelihood, Edges.consequence} :
     axis.column \notin columns /\ axis.default = {}}

\* Of a table: how many of its rows read each cell; rank 0 where none applies.
AssessTable(rows) ==
  [rank \in 0 .. Len(SeverityOrder) |->
     Cardinality({i \in DOMAIN rows : IF rank = 0 THEN Assess(rows[i]) = {}
                                       ELSE rank \in Assess(rows[i])})]

-----------------------------------------------------------------------------
(* Rules.                                                                  *)

\* A condition on a reading that is not there fails, and its rule is skipped.
Fires(rule, r) == r[rule.column] # NoReading /\ r[rule.column] > rule.above

Fired(r, mode) ==
  LET all == SelectSeq(Rules, LAMBDA rule : Fires(rule, r))
  IN IF mode = "first_match" /\ all # <<>> THEN <<all[1]>> ELSE all

\* Later assignments overwrite earlier ones; the default where none fired.
Assigned(r, mode) == IF Fired(r, mode) = <<>> THEN "default"
                     ELSE Fired(r, mode)[Len(Fired(r, mode))].then

-----------------------------------------------------------------------------
ScoringInit == record = [c \in Columns |-> NoReading]
Observe(c) ==
  \E level \in (Shown \cup {NoReading}) \ {record[c]} : record' = [record EXCEPT ![c] = level]
ScoringNext == \E c \in Columns : Observe(c)
ScoringSpec == ScoringInit /\ [][ScoringNext]_record

ScoringTypeOK == record \in Records

-----------------------------------------------------------------------------
(* Laws.                                                                   *)

\* The component that reads it, and no other, has less to lose from `to`.
Better(i, from, to) ==
  \A s \in SubScore(Components[i], from), t \in SubScore(Components[i], to) : s <= t
AtLeast(new, old) == new.weighted * old.used >= old.weighted * new.used

\* A score moves the way its components do, stays between the worst and the
\* best of them, and what stops being measured counts neither for nor against
\* it: the rest is what it was, and less of the evidence is used ("a missing
\* input silently becomes a good one" is what the scorecard is there to avoid).
\* A risk does not fall when a likelihood or a consequence rises, and the rules
\* that stop at the first match fall back to the default exactly where those
\* that do not would.  What a check of the columns warns of is what happens.
ScoreLaws ==
  LET present == {c \in Columns : record[c] # NoReading}
      table == <<record, [c \in Columns |-> NoReading], record>>
  IN
  /\ ScorecardReads /\ MatrixReads
  /\ Applied(record)
       = {i \in DOMAIN Components : i \in Lacking(present) => Components[i].missing # "skip"}
  /\ Unplaceable(present) = {} <=> Assess(record) # {}
  /\ ScoreTable(table).scored + ScoreTable(table).withheld = Len(table)
  /\ SumFor(DOMAIN AssessTable(table), LAMBDA rank : AssessTable(table)[rank]) = Len(table)
  /\ ~Score(record).withheld =>
       /\ \E i \in Applied(record) : SubOf(i, record) * Score(record).used <= Score(record).weighted
       /\ \E i \in Weakest(record) : \A j \in Applied(record) : SubOf(i, record) <= SubOf(j, record)
  /\ \A c \in Columns : \A level \in Shown :
       LET other == [record EXCEPT ![c] = level]
           gone == [record EXCEPT ![c] = NoReading]
           readers == {i \in DOMAIN Components : Components[i].column = c}
       IN /\ (\A i \in readers : record[c] # NoReading /\ Better(i, record[c], level)) =>
               /\ AtLeast(Score(other), Score(record))
               /\ Score(other).withheld = Score(record).withheld
          /\ Score(gone).used <= Score(record).used
          /\ (\A i \in readers : Components[i].missing = "skip") =>
               Score(gone).weighted
                 = SumFor(Applied(record) \ readers, LAMBDA i : Components[i].weight * SubOf(i, record))
          /\ Score(record).withheld => Score(gone).withheld
          /\ (\A i \in readers : Components[i].missing = "worst") =>
               AtLeast(Score(other), Score(gone))
          /\ (record[c] # NoReading /\ record[c] <= level) =>
               \A before \in Assess(record), after \in Assess(other) : before <= after
  /\ (Assigned(record, "first_match") = "default") = (Assigned(record, "all_matches") = "default")
  /\ Fired(record, "all_matches") # <<>> =>
       Fired(record, "first_match") = <<Fired(record, "all_matches")[1]>>
=============================================================================
