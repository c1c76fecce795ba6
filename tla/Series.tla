------------------------------- MODULE Series -------------------------------
(***************************************************************************)
(* One measurement of one subject: how far it can be believed (the data    *)
(* quality checks) and when it meets a limit (the projection).  Readings   *)
(* are stored as they come, for any moment, and may be sent twice.         *)
(* Nothing is rounded and no root is taken: ratios of deviations are       *)
(* compared by their squares, a score is counted in parts of a point.      *)
(***************************************************************************)
EXTENDS Statistics

CONSTANTS Moments,    \* when a reading may be taken
          Resendable, \* those whose reading may arrive twice
          Measured,   \* what it may read
          NoValue,    \* a reading that never arrived
          PointParts, \* parts of a point of the score
          Settings,   \* of the checks, below
          Limits,     \* ascending
          Projecting  \* [min_points, r_squared (a fraction), horizon, confidence]

ASSUME SeriesAssumption ==
  /\ Moments \subseteq Nat /\ Resendable \subseteq Moments
  /\ Measured \subseteq Int /\ NoValue \notin Measured
  /\ PointParts \in Nat \ {0}

VARIABLES stored,   \* stored[t]: the reading of that moment, or none
          resent    \* the moments sent twice

seriesVars == <<stored, resent>>

\* In time order, however they were stored.
Stamps == LET once == SelectSeq([i \in 1 .. Max(Moments) + 1 |-> i - 1],
                               LAMBDA t : t \in Moments /\ stored[t] # <<>>)
          IN FlattenSeq([i \in DOMAIN once |->
               IF once[i] \in resent THEN <<once[i], once[i]>> ELSE <<once[i]>>])
Stored == [i \in DOMAIN Stamps |-> stored[Stamps[i]][1]]
Duplicates(stamps) == Len(stamps) - Cardinality(Range(stamps))

Present(values) == SelectSeq(values, LAMBDA v : v # NoValue)

-----------------------------------------------------------------------------
(* The checks of one series.                                               *)

\* Four times the quantile at q quarters of a sorted sequence.
Quantile(ordered, q) ==
  LET position == q * (Len(ordered) - 1)
      low == ordered[position \div 4 + 1]
  IN IF position % 4 = 0 THEN 4 * low
     ELSE 4 * low + (ordered[position \div 4 + 2] - low) * (position % 4)

Outliers(present) ==
  LET ordered == SortSeq(present, <)
      q1 == Quantile(ordered, 1)
      q3 == Quantile(ordered, 3)
      reach == Settings.outlier_factor * (q3 - q1)
  IN IF Len(present) < Settings.outliers_from \/ q3 = q1 THEN 0
     ELSE Len(SelectSeq(present, LAMBDA v : 4 * v < q1 - reach \/ 4 * v > q3 + reach))

OutOfRange(present, minimum, maximum) ==
  Len(SelectSeq(present, LAMBDA v : v < minimum \/ v > maximum))

\* Mutated: a reading that did not arrive leaves the run as it was.
LongestAcross(values) ==
  LET present == Present(values)
      run[i \in 1 .. Len(present)] ==
        IF i > 1 /\ present[i - 1] = present[i] THEN run[i - 1] + 1 ELSE 1
      best == Max({0} \cup {run[i] : i \in DOMAIN present})
  IN IF best = 1 THEN 0 ELSE best

\* A run of one is none; a missing reading breaks a run, and what comes after
\* it is compared with the last reading there was.
LongestFlatline(values) ==
  LET state[i \in 0 .. Len(values)] ==
        IF i = 0 THEN [previous |-> <<>>, run |-> 0, best |-> 0]
        ELSE LET was == state[i - 1]
                 same == values[i] # NoValue /\ was.previous = <<values[i]>>
                 run == IF same THEN was.run + 1 ELSE 0
             IN [previous |-> IF values[i] = NoValue THEN was.previous ELSE <<values[i]>>,
                 run |-> run,
                 best |-> IF same THEN Max({was.best, run + 1}) ELSE was.best]
  IN state[Len(values)].best

\* The square of the largest shift of level between two windows, over the
\* square of what noise alone would do; <<>> where there is no noise to tell.
LevelShift(present) ==
  LET window == Settings.step_window
      n == Len(present)
      diffs == [i \in 1 .. n - 1 |-> Abs(present[i + 1] - present[i])]
      Shift(at) == Abs(Total(SubSeq(present, at + 1, at + window))
                         - Total(SubSeq(present, at - window + 1, at)))
      largest == Max({Shift(at) : at \in window .. n - window})
  IN IF n < Max({3 * window, Settings.step_from}) \/ Deviations(diffs, diffs) = 0 THEN <<>>
     ELSE <<largest * largest * (n - 1) * (n - 2), 2 * window * Deviations(diffs, diffs)>>

Shifted(present, ratio) ==
  LevelShift(present) # <<>> /\ LevelShift(present)[1] >= ratio * ratio * LevelShift(present)[2]

Intervals(stamps) == [i \in 1 .. Len(stamps) - 1 |-> stamps[i + 1] - stamps[i]]
Gaps(stamps) == Len(SelectSeq(Intervals(stamps), LAMBDA gap :
                                gap > Settings.interval * Settings.gap_tolerance))

\* The halves of the series are apart by so many deviations of the first.
Drifts(present) ==
  LET half == Len(present) \div 2
      first == SubSeq(present, 1, half)
      second == SubSeq(present, half + 1, Len(present))
      apart == half * Total(second) - Len(second) * Total(first)
  IN /\ Len(present) >= Settings.drift_from /\ half >= 2 /\ Deviations(first, first) > 0
     /\ apart * apart * (half - 1)
          >= Settings.drift_sigma * Settings.drift_sigma * half * Len(second) * Len(second)
               * Deviations(first, first)

CHECKS == <<"missing", "duplicates", "range", "outliers", "flatline", "step", "gaps", "drift">>

PENALTY(check) == CASE check = "missing" -> 60 [] check = "duplicates" -> 20
                    [] check = "range" -> 100 [] check = "outliers" -> 40
                    [] check = "flatline" -> 45 [] check = "step" -> 50
                    [] check = "gaps" -> 25 [] check = "drift" -> 10

\* Of a whole penalty; never more than all of it.
Share(part, whole) == IF whole = 0 THEN 0
                      ELSE Min({PointParts, (PointParts * part) \div whole})

\* Past its ratio a shift costs half, and all at three times it; in between,
\* where the code goes up with the ratio, it is taken at the half.
Severity(check, values, stamps, minimum, maximum) ==
  LET present == Present(values)
      best == LongestFlatline(values)
  IN CASE check = "missing" -> Share(Len(values) - Len(present), Len(values))
       [] check = "duplicates" -> Share(Duplicates(stamps), 10)
       [] check = "range" -> Share(OutOfRange(present, minimum, maximum), Len(present))
       [] check = "outliers" -> Share(Outliers(present), Len(present))
       [] check = "flatline" -> IF best < Settings.flatline THEN 0 ELSE Share(best, Settings.stuck)
       [] check = "step" -> IF Shifted(present, 2 * Settings.step_ratio) THEN PointParts
                            ELSE IF Shifted(present, Settings.step_ratio) THEN Share(1, 2) ELSE 0
       [] check = "gaps" -> Share(4 * Gaps(stamps), Len(Intervals(stamps)))
       [] check = "drift" -> IF Drifts(present) THEN PointParts ELSE 0

\* What each check takes off, and the score where the checks `enabled` are made.
Penalties(values, stamps, minimum, maximum) ==
  [i \in DOMAIN CHECKS |->
     PENALTY(CHECKS[i]) * Severity(CHECKS[i], values, stamps, minimum, maximum)]
AssessSeries(penalties, enabled) ==
  Max({0, 100 * PointParts
            - Total([i \in DOMAIN CHECKS |-> IF CHECKS[i] \in enabled THEN penalties[i] ELSE 0])})

Flag(score) == CASE score >= 90 * PointParts -> "good"
                 [] 70 * PointParts <= score /\ score < 90 * PointParts -> "acceptable"
                 [] 40 * PointParts <= score /\ score < 70 * PointParts -> "suspect"
                 [] score < 40 * PointParts -> "bad"

-----------------------------------------------------------------------------
(* The projection: fractions <<numerator, positive denominator>>.          *)

\* The last readings that are there, from the first of them.
Fit(values, stamps) ==
  LET usable == SelectSeq([i \in DOMAIN values |-> i], LAMBDA i : values[i] # NoValue)
      kept == SubSeq(usable, Max({1, Len(usable) - Settings.window + 1}), Len(usable))
      xs == [i \in DOMAIN kept |-> stamps[kept[i]] - stamps[kept[1]]]
      ys == [i \in DOMAIN kept |-> values[kept[i]]]
      sxx == Deviations(xs, xs)
  IN [points |-> Len(kept), last |-> IF kept = <<>> THEN <<>> ELSE <<Last(ys)>>,
      fitted |-> Len(kept) >= 2 /\ sxx > 0,
      sxx |-> sxx, sxy |-> Deviations(xs, ys), syy |-> Deviations(ys, ys)]

\* Periods until the line meets the limit it moves towards.
Crossing(fit, gap) == <<Abs(gap) * fit.sxx, Abs(fit.sxy)>>

\* The slow end of the window reaches the limit within the horizon.
WindowCloses(fit, gap, question) ==
  LET ahead == Abs(fit.sxy) * question.horizon - Abs(gap) * fit.sxx
  IN /\ fit.points > 2 /\ ahead >= 0
     /\ ahead * ahead * (fit.points - 2)
          >= question.confidence * question.confidence * question.horizon * question.horizon
               * (fit.syy * fit.sxx - fit.sxy * fit.sxy)

\* Distance to one limit, and what it rests on.
One(fit, limit, direction, question) ==
  LET gap == limit - fit.last[1]
      beyond == IF direction = "rising" THEN gap <= 0 ELSE gap >= 0
      towards == IF direction = "rising" THEN fit.sxy > 0 ELSE fit.sxy < 0
      periods == Crossing(fit, gap)
      strong == /\ fit.points >= question.min_points /\ fit.syy > 0
                /\ fit.sxy * fit.sxy * question.r_squared[2]
                     >= question.r_squared[1] * fit.sxx * fit.syy
      Answer(basis, when, bounded) == [basis |-> basis, periods |-> when, bounded |-> bounded]
  IN CASE fit.last = <<>> -> Answer("unknown", <<>>, FALSE)
       [] fit.last # <<>> /\ beyond -> Answer("calculated", <<0, 1>>, FALSE)
       [] fit.last # <<>> /\ ~beyond /\ ~(fit.fitted /\ towards) -> Answer("unknown", <<>>, FALSE)
       [] fit.last # <<>> /\ ~beyond /\ fit.fitted /\ towards ->
            IF periods[1] > question.horizon * periods[2] THEN Answer("inferred", <<>>, FALSE)
            ELSE IF ~strong THEN Answer("inferred", periods, FALSE)
            ELSE Answer("estimated", periods, WindowCloses(fit, gap, question))

Dated(answer) == answer.basis \in {"calculated", "estimated"}
Sooner(one, other) == one[1] * other[2] < other[1] * one[2]

\* The soonest of the limits that have periods: the first of equals.
Soonest(answers) ==
  LET dated == {i \in DOMAIN answers : answers[i].periods # <<>>}
  IN {i \in dated : \A j \in dated : Sooner(answers[i].periods, answers[j].periods)
                                      \/ (~Sooner(answers[j].periods, answers[i].periods) /\ i <= j)}

Project(fit, limits, direction, question) ==
  [i \in DOMAIN limits |-> One(fit, limits[i], direction, question)]

-----------------------------------------------------------------------------
SeriesInit == stored = [t \in Moments |-> <<>>] /\ resent = {}

Store(t, v) == stored[t] = <<>> /\ stored' = [stored EXCEPT ![t] = <<v>>] /\ UNCHANGED resent
Resend(t) == t \in Resendable /\ stored[t] # <<>> /\ resent = {} /\ resent' = {t} /\ UNCHANGED stored

SeriesNext == \E t \in Moments : Resend(t) \/ \E v \in Measured \cup {NoValue} : Store(t, v)
SeriesSpec == SeriesInit /\ [][SeriesNext]_seriesVars

SeriesTypeOK ==
  /\ stored \in [Moments -> {<<>>} \cup {<<v>> : v \in Measured \cup {NoValue}}]
  /\ resent \subseteq {t \in Moments : stored[t] # <<>>}

-----------------------------------------------------------------------------
(* Laws.                                                                   *)

Negated(values) == [i \in DOMAIN values |-> IF values[i] = NoValue THEN NoValue ELSE 0 - values[i]]
Raised(values) == [i \in DOMAIN values |-> IF values[i] = NoValue THEN NoValue ELSE values[i] + 7]
Doubled(values) == [i \in DOMAIN values |-> IF values[i] = NoValue THEN NoValue ELSE 2 * values[i]]
Backwards(stamps) == [i \in DOMAIN stamps |-> 10 - Reverse(stamps)[i]]

\* A stuck instrument: consecutive readings, all there and all the same.
StuckFor(values) ==
  {to - from + 1 : <<from, to>> \in
     {pair \in (DOMAIN values) \X (DOMAIN values) :
        /\ pair[1] < pair[2] /\ values[pair[1]] # NoValue
        /\ \A i \in pair[1] .. pair[2] : values[i] = values[pair[1]]}}

\* What is wrong with a series does not depend on the zero of its scale,
\* which way it points, the unit it is in or, but for its drift, which end of it came first; a
\* check more never raises the score; a stuck run is as long as it is (a
\* missing reading breaks it, unless what follows is what preceded); at most
\* half of what is there is far outside the rest.
ChecksAgree ==
  LET values == Stored
      stamps == Stamps
      low == Settings.minimum
      high == Settings.maximum
      found == Penalties(values, stamps, low, high)
      backwards == Penalties(Reverse(values), Backwards(stamps), low, high)
      Without(check) == AssessSeries(found, Range(CHECKS) \ {check})
      all == AssessSeries(found, Range(CHECKS))
  IN /\ found = Penalties(Raised(values), stamps, low + 7, high + 7)
     /\ found = Penalties(Doubled(values), stamps, 2 * low, 2 * high)
     /\ found = Penalties(Negated(values), stamps, 0 - high, 0 - low)
     /\ \A i \in DOMAIN CHECKS :
          CHECKS[i] \in {"flatline", "drift"} \/ found[i] = backwards[i]
     /\ \A check \in Range(CHECKS) :
          /\ all <= Without(check) /\ Without(check) <= 100 * PointParts
          /\ Flag(all) = "good" => Flag(Without(check)) = "good"
     /\ \A run \in StuckFor(values) : run <= LongestFlatline(values)
     /\ LongestFlatline(values) > 2 => LongestFlatline(values) \in StuckFor(values)
                                       \/ LongestFlatline(values) - 1 \in StuckFor(values)
     /\ 2 * Outliers(Present(values)) <= Len(Present(values))
     /\ Duplicates(stamps) = Cardinality(resent)

\* A date is given only where enough readings lie well enough along a line
\* towards the limit, or the limit is behind; it is bounded only then; a nearer
\* limit is never later nor on a weaker basis, nor does asking for less (a
\* longer horizon, a narrower window) take an answer away; and falling is
\* rising upside down.
LimitsKept ==
  LET fit == Fit(Stored, Stamps)
      far == [Projecting EXCEPT !.horizon = 2 * @]
      loose == [Projecting EXCEPT !.confidence = @ - 1]
      rank == [unknown |-> 0, inferred |-> 1, estimated |-> 2, calculated |-> 3]
      answers == Project(fit, Limits, "rising", Projecting)
      mirrored == Project(Fit(Negated(Stored), Stamps), [i \in DOMAIN Limits |-> 0 - Limits[i]],
                          "falling", Projecting)
  IN /\ answers = mirrored
     /\ \A i \in DOMAIN answers :
          /\ answers[i].basis = "calculated" <=> fit.last # <<>> /\ fit.last[1] >= Limits[i]
          /\ answers[i].bounded => answers[i].basis = "estimated"
          /\ answers[i].basis = "estimated" =>
               /\ fit.points >= Projecting.min_points
               /\ ~Sooner(<<Projecting.horizon, 1>>, answers[i].periods)
          /\ answers[i].bounded => /\ One(fit, Limits[i], "rising", far).bounded
                                   /\ One(fit, Limits[i], "rising", loose).bounded
          /\ rank[answers[i].basis] <= rank[One(fit, Limits[i], "rising", far).basis]
     /\ \A i \in 1 .. Len(answers) - 1 :
          /\ rank[answers[i].basis] >= rank[answers[i + 1].basis]
          /\ answers[i + 1].bounded /\ answers[i].basis = "estimated" => answers[i].bounded
          /\ answers[i + 1].periods # <<>> =>
               answers[i].periods # <<>> /\ ~Sooner(answers[i + 1].periods, answers[i].periods)
     /\ \A i \in Soonest(answers) : \A j \in 1 .. i - 1 : answers[j].periods = <<>>

\* A series is judged by what it measured, never by how it is written down,
\* and a projection says no more than its readings support ("the dangerous
\* failure is ... answering at all when the data cannot support an answer").
SeriesLaws == ChecksAgree /\ LimitsKept
=============================================================================
