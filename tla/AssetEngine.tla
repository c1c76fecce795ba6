----------------------------- MODULE AssetEngine -----------------------------
(***************************************************************************)
(* The maintenance decision about one asset (asset_maintenance/engine.py,  *)
(* plugin.py, features.py): a record that grows day by day, repairs and    *)
(* failures that are filed, instruments that are scored, and the           *)
(* assessment of the asset as it stood on any day of the record.           *)
(* Weights, slopes, fits and shares are in hundredths, ratios in tenths,   *)
(* and a contribution in millionths.                                       *)
(***************************************************************************)
EXTENDS Statistics

CONSTANTS ParameterOrder, \* the measurements of its class, as they sort
          DayRows,       \* what a day on which the asset ran may have measured
          Modes,         \* its class's failure modes, in order: how far each moves what
                         \* towards harm
          Tasks,         \* its class's maintenance tasks: intervals in hours and days
          EngineRules,   \* engineering rules
          Scores,        \* what the quality check can say of an instrument
          Criticality, NoScore, NoRows, NoAnswer,
          DailyHours,    \* how long it runs on a day it runs
          Week, LongWindow, ColdStart, ShortRecord, RecentDays,
          MaxDay, MaxFilings

VARIABLES dailyRecord, \* one entry per day: the readings of each measurement, or NoRows
          tables,    \* what is filed beside them: repairs, class failures, quality
          cached,    \* the engine the API holds: the version it was built for, its tables
          filings,
          said       \* what was answered about each day while it was the last

assetVars == <<dailyRecord, tables, cached, filings, said>>

Parameters == {ParameterOrder[i] : i \in DOMAIN ParameterOrder}
ModeNames == {Modes[i].key : i \in DOMAIN Modes}

\* A reading says how far it is from what was expected, in percent of that and of
\* the way to its emergency limit, which limit it passed, how fast it moves and
\* how well that fits a line, how far from its own normal, how spread out, and
\* in how many days it meets its next limit, at the earliest and at the latest.
\* What is not known of it is Unknown.
Unknown == 0 - 1000
Projections ==
  {due \in [basis : {"unknown", "calculated", "inferred", "estimated"},
            earliest : Nat, periods : Nat, latest : Nat] :
     due.earliest <= due.periods /\ due.periods <= due.latest}
Measurements ==
  [deviation : Int, progress : Int, rank : 0 .. 3, slope : Int, fit : Int, z : Int, ratio : Int,
   due : Projections]

ASSUME AssetAssumption ==
  /\ \A rows \in DayRows : DOMAIN rows \subseteq Parameters /\ rows \in [DOMAIN rows -> Measurements]
  /\ NoRows \notin DayRows /\ NoScore \notin Scores
  /\ MaxDay \in Nat \ {0} /\ MaxFilings \in Nat

AssetInit ==
  /\ \E rows \in DayRows : dailyRecord = <<rows>>
  /\ tables = [log |-> {}, failures |-> [m \in ModeNames |-> 0],
               quality |-> [p \in Parameters |-> NoScore]]
  /\ cached = [version |-> 0, tables |-> tables]
  /\ filings = 0
  /\ said = [d \in 1 .. MaxDay |-> NoAnswer]

Within(low, x, high) == Max({low, Min({x, high})})

-----------------------------------------------------------------------------
(* The asset as it stood on a day.                                         *)

\* Mutated: the whole log is looked at.
UncutRecord(events, d) == events

\* What had been filed by then.
RecordUpTo(events, d) == {e \in events : e.day <= d}

RunDays(d) == {k \in 1 .. d : dailyRecord[k] # NoRows}
ReadOn(p, d) == {k \in RunDays(d) : p \in DOMAIN dailyRecord[k]}

\* Everything an assessment on day d looks at, which is nothing when there were
\* no readings yet.  A measurement stands as it was last read, however long ago, and
\* the week's hours are those of the first one; failures of the class and the
\* instruments' scores have no date.
View(kept, d) ==
  LET ran == RunDays(d)
      measured == {p \in Parameters : ReadOn(p, d) # {}}
      first == ParameterOrder[Min({i \in DOMAIN ParameterOrder : ParameterOrder[i] \in measured})]
      week == {k \in ran : Cardinality({j \in ran : j >= k}) <= Week /\ k # Min(ran)}
      log == RecordUpTo(kept.log, d)
      repairs == {e.day : e \in {f \in log : f.kind = "corrective"}}
  IN [day |-> d,
      readings |-> [p \in measured |-> dailyRecord[Max(ReadOn(p, d))][p]],
      ago |-> [p \in measured |-> d - Max(ReadOn(p, d))],
      quality |-> kept.quality,
      log |-> log,
      failures |-> kept.failures,
      observed |-> Cardinality(ran),
      runtime |-> DailyHours * Cardinality(ran),
      lastWeek |-> DailyHours * Cardinality(week \cap ReadOn(first, d)),
      sinceRepair |-> IF repairs = {} THEN {} ELSE {d - Max(repairs)}]

\* The window a trend is fitted to lies entirely after the last repair.
CleanWindow(v) == \A days \in v.sinceRepair : days >= LongWindow

-----------------------------------------------------------------------------
(* Findings: a signed weight, and how sure it is.                          *)

Finding(by, about, weight, sure) == [by |-> by, about |-> about, weight |-> weight, sure |-> sure]

\* How much an instrument's score is allowed to scale a conclusion.
QualityFactor(score) == IF score = NoScore THEN 85 ELSE Within(30, score, 100)
Sure(v, p, confidence) == confidence * QualityFactor(v.quality[p])

Threshold(v) ==
  {Finding("threshold", <<p>>, <<1800, 3400, 5200>>[v.readings[p].rank], Sure(v, p, 95)) :
     p \in {q \in DOMAIN v.readings : v.readings[q].rank >= 1}}

Deviating(v) == {p \in DOMAIN v.readings : v.readings[p].progress >= 22}

Baseline(v) ==
  {Finding("baseline", <<p>>, Min({2600, 300 + 28 * v.readings[p].progress}), Sure(v, p, 75)) :
     p \in Deviating(v)}

\* A repair moves every signal back: no trend is fitted across it.
Trend(v) ==
  IF ~CleanWindow(v) THEN {Finding("quality", <<"repair">>, 0 - 600, 8500)} ELSE
  {LET r == v.readings[p] IN
     IF r.fit # Unknown /\ r.fit < 25 THEN Finding("trend", <<p>>, 400, 4000)
     ELSE Finding("trend", <<p>>, Min({3000, 600 + 9 * r.slope}),
                  Sure(v, p, Min({90, 45 + (IF r.fit = Unknown THEN 25 ELSE r.fit \div 2)}))) :
   p \in {q \in DOMAIN v.readings : v.readings[q].slope > 15}}

Statistical(v) ==
  IF ~CleanWindow(v) THEN {} ELSE
  {Finding("statistical", <<p>>, Min({2000, 600 * Abs(v.readings[p].z) - 600}), Sure(v, p, 70)) :
     p \in {q \in DOMAIN v.readings : Abs(v.readings[q].z) >= 2}}
  \cup
  {Finding("statistical", <<p, "spread">>, Min({1600, 40 * v.readings[p].ratio}), Sure(v, p, 60)) :
     p \in {q \in DOMAIN v.readings : v.readings[q].ratio >= 18}}

\* How much of a mode's pattern is there: each measurement it moves counts as
\* far as it has moved that way, full at half of the distance to its limit.
Hit(v, mode, p) ==
  IF p \notin DOMAIN v.readings \/ v.readings[p].progress = Unknown THEN 0
  ELSE Within(0, 2 * v.readings[p].progress * (IF mode.effects[p] > 0 THEN 1 ELSE 0 - 1), 100)
Effect(mode) == MapThenSumSet(LAMBDA p : Abs(mode.effects[p]), DOMAIN mode.effects)
Weighed(mode, hits) ==
  MapThenSumSet(LAMBDA p : Abs(mode.effects[p]) * hits[p], DOMAIN mode.effects) \div Effect(mode)
Support(v, mode) == Weighed(mode, [p \in DOMAIN mode.effects |-> Hit(v, mode, p)])

\* Two moving measurements make a pattern, or one that carries most of it.
Matched(v, mode) ==
  LET supporting == {p \in DOMAIN mode.effects : Hit(v, mode, p) > 35} IN
  /\ Cardinality({p \in DOMAIN v.readings : v.readings[p].progress # Unknown}) >= 2
  /\ Support(v, mode) >= 45
  /\ Cardinality(supporting) >= 2 \/ Support(v, mode) >= 60

\* The two that match best.
Suspected(v) ==
  LET matched == {i \in DOMAIN Modes : Matched(v, Modes[i])}
      better(i, j) == \/ Support(v, Modes[i]) > Support(v, Modes[j])
                      \/ Support(v, Modes[i]) = Support(v, Modes[j]) /\ i < j
  IN {Modes[i] : i \in {j \in matched : Cardinality({k \in matched : better(k, j)}) < 2}}

Signature(v) ==
  {Finding("signature", <<mode.key>>, Min({3400, 1200 + 26 * Support(v, mode)}),
           100 * Min({85, 40 + Support(v, mode) \div 2})) : mode \in Suspected(v)}

\* When a task was last done, as the record says; a repair renews it too.
LastDone(v, task) ==
  {Max(days) : days \in {{e.day : e \in {f \in v.log : f.task = task.key \/ f.kind = "corrective"}}} \ {{}}}

\* How much of its interval in running hours is used, where that is known.
Usage(v, task) ==
  LET daily == IF v.lastWeek = 0 THEN 8 ELSE Max({1, v.lastWeek \div Week}) IN
  {(100 * Min({v.runtime, (v.day - last) * daily})) \div task.hours : last \in LastDone(v, task)}

Hourly == {Tasks[i] : i \in {j \in DOMAIN Tasks : Tasks[j].hours > 0}}
Used(v) == UNION {Usage(v, task) : task \in Hourly}
Spent(v) == \E used \in Used(v) : used >= 100

Runtime(v) ==
  {Finding("runtime", <<task.key>>,
           LET used == Max(Usage(v, task)) IN
             IF used < 90 THEN 600 ELSE IF used < 100 THEN 1600 ELSE 2600, 9000) :
     task \in {t \in Hourly : \E used \in Usage(v, t) : used >= 70}}
  \cup (IF \A t \in Hourly : LastDone(v, t) # {} THEN {}
        ELSE {Finding("runtime", <<"unrecorded">>, 300, 5000)})

Calendar(v) ==
  {Finding("calendar", <<Tasks[i].key>>,
           IF v.day - Max(LastDone(v, Tasks[i])) < Tasks[i].days THEN 400 ELSE 1200, 9000) :
     i \in {j \in DOMAIN Tasks : /\ Tasks[j].days > 0
                                 /\ \E last \in LastDone(v, Tasks[j]) :
                                      100 * (v.day - last) >= 80 * Tasks[j].days}}

\* A repair that did not hold, once there is a window to tell by; and what the
\* same pattern has been on this class before.
History(v) ==
  {Finding("history", <<"repair">>, 1000, 6500) :
     days \in {n \in v.sinceRepair : n <= RecentDays /\ CleanWindow(v)}}
  \cup {Finding("history", <<mode.key>>, Min({1400, 400 + 150 * v.failures[mode.key]}), 6000) :
          mode \in {m \in Suspected(v) : v.failures[m.key] > 0}}

Progressed(v) == {p \in DOMAIN v.readings : v.readings[p].progress # Unknown}
WorstRank(v) == Max({v.readings[p].rank : p \in DOMAIN v.readings})
WorstProgress(v) == Max({Unknown} \cup {v.readings[p].progress : p \in Progressed(v)})
MatchPercent(v) == Max({0} \cup {Support(v, mode) : mode \in Suspected(v)})

\* The steepest measurement, the first of equals.
Steepest(v) ==
  LET trended == {i \in DOMAIN ParameterOrder : /\ ParameterOrder[i] \in DOMAIN v.readings
                                                /\ v.readings[ParameterOrder[i]].slope # Unknown}
      slope(i) == v.readings[ParameterOrder[i]].slope
      steepest == {i \in trended : \A j \in trended : slope(j) <= slope(i)}
  IN {v.readings[ParameterOrder[i]] : i \in {k \in steepest : \A j \in steepest : k <= j}}

\* A rule that names what this asset does not measure does not apply.  Rules:
\* measurements that have moved together, one that rises before it crosses, a
\* line crossed by what cannot be trusted, an interval nearly used up, one
\* measurement that moves alone, and too little to go by.  (Those about load
\* are not among them.)
RuleFires(rule, v) ==
  CASE rule.when = "together" ->
         /\ DOMAIN rule.over \cup DOMAIN rule.under \subseteq DOMAIN v.readings
         /\ \A p \in DOMAIN rule.over : v.readings[p].deviation > rule.over[p]
         /\ \A p \in DOMAIN rule.under : /\ v.readings[p].deviation # Unknown
                                       /\ v.readings[p].deviation < rule.under[p]
    [] rule.when = "rising" ->
         /\ \E r \in Steepest(v) : r.slope > 25 /\ r.fit > 50
         /\ WorstRank(v) < 2 /\ WorstProgress(v) > 25
    [] rule.when = "distrusted" ->
         /\ WorstRank(v) >= 2
         /\ \E p \in DOMAIN v.readings : v.quality[p] # NoScore /\ v.quality[p] < 55
    [] rule.when = "due" -> \E used \in Used(v) : used > 90
    [] rule.when = "alone" ->
         /\ Cardinality(DOMAIN v.readings) >= 3 /\ MatchPercent(v) < 40
         /\ Cardinality(Progressed(v)) >= 2
         /\ \E p \in Progressed(v) :
              /\ v.readings[p].progress > 55
              /\ \A q \in Progressed(v) \ {p} : v.readings[q].progress < 20
    [] rule.when = "short" -> v.observed < ShortRecord \/ Cardinality(DOMAIN v.readings) < 3

Engineering(v) ==
  {Finding("engineering", <<EngineRules[r].key>>, EngineRules[r].weight, 100 * EngineRules[r].confidence) :
     r \in {i \in DOMAIN EngineRules : RuleFires(EngineRules[i], v)}}

\* Reasons to doubt: an instrument nobody should trust, most of all where it is
\* the one that crossed a line, and a record too short to know the asset.
Quality(v) ==
  {Finding("quality", <<p>>, IF v.readings[p].rank >= 1 \/ v.readings[p].deviation > 8
                           THEN 0 - 2600 ELSE 0 - 600, 8000) :
     p \in {q \in DOMAIN v.readings : v.quality[q] # NoScore /\ v.quality[q] < 70}}
  \cup (IF v.observed >= ColdStart THEN {} ELSE {Finding("quality", <<"cold">>, 0 - 1000, 9000)})

\* What each analyzer's findings come to.
Contribution(findings) == FoldLeft(LAMBDA sum, f : sum + f.weight * f.sure, 0, SetToSeq(findings))

ScoreParts(v) ==
  [threshold |-> Contribution(Threshold(v)),     baseline |-> Contribution(Baseline(v)),
   trend |-> Contribution(Trend(v)),             statistical |-> Contribution(Statistical(v)),
   signature |-> Contribution(Signature(v)),     runtime |-> Contribution(Runtime(v)),
   calendar |-> Contribution(Calendar(v)),       history |-> Contribution(History(v)),
   engineering |-> Contribution(Engineering(v)), quality |-> Contribution(Quality(v))]

Analyzers == <<"threshold", "baseline", "trend", "statistical", "signature", "runtime",
               "calendar", "history", "engineering", "quality">>

\* A decision policy is the analyzers it consults and how much it takes.
POLICIES ==
  [threshold_only |-> [consults |-> <<"threshold">>, adjusted |-> FALSE, enough |-> 15],
   threshold_and_policy |->
     [consults |-> <<"threshold", "runtime", "calendar">>, adjusted |-> FALSE, enough |-> 18],
   statistical |->
     [consults |-> <<"threshold", "baseline", "trend", "statistical", "runtime", "calendar">>,
      adjusted |-> FALSE, enough |-> 40],
   full |-> [consults |-> Analyzers, adjusted |-> FALSE, enough |-> 44],
   full_risk_adjusted |-> [consults |-> Analyzers, adjusted |-> TRUE, enough |-> 44]]

CriticalityLevels == <<"low", "medium", "high", "critical">>
CONCERN_THRESHOLD == [critical |-> 26, high |-> 34, medium |-> 44, low |-> 56]

Enough(policy, criticality) ==
  IF policy.adjusted THEN CONCERN_THRESHOLD[criticality] ELSE policy.enough

-----------------------------------------------------------------------------
(* The decision.                                                           *)

Consults(policy, analyzer) == \E i \in DOMAIN policy.consults : policy.consults[i] = analyzer

Concern(contributions, policy) ==
  Within(0, FoldLeft(LAMBDA sum, analyzer : sum + contributions[analyzer], 0, policy.consults),
        100000000)

\* Degradation moves more than one signal.
Corroborated(v) == \/ Cardinality(Deviating(v)) >= 2
                   \/ MatchPercent(v) >= 45
                   \/ Cardinality(DOMAIN v.readings) < 3
ForcesAction(v) ==
  \E p \in DOMAIN v.readings :
    /\ v.quality[p] = NoScore \/ v.quality[p] >= 60
    /\ v.readings[p].rank >= 3 \/ (v.readings[p].rank >= 2 /\ Corroborated(v))

\* Likelihood by consequence.
RISK_GRID == <<<<1, 1, 2, 3>>, <<1, 2, 3, 4>>, <<2, 3, 4, 4>>>>
RiskLevel(concern, criticality) ==
  RISK_GRID[IF concern <= 30000000 THEN 1 ELSE IF concern <= 60000000 THEN 2 ELSE 3]
           [CHOOSE i \in 1 .. 4 : CriticalityLevels[i] = criticality]

\* NONE, LOW, MEDIUM, HIGH or IMMEDIATE.
Priority(risk, required, forced) ==
  CASE ~required -> 0
    [] required /\ forced /\ risk >= 3 -> 4
    [] OTHER -> risk

\* The measurement that meets its next limit in the fewest days: no days left
\* counts as no end of them when it is compared, and the first of equals stays.
PeriodsKey(due) == IF due.periods = 0 THEN 1000000000 ELSE due.periods
SoonestTrend(v) ==
  LET due(p) == v.readings[p].due
  IN FoldLeft(LAMBDA best, p :
                IF p \notin DOMAIN v.readings \/ due(p).basis = "unknown" THEN best
                ELSE IF \A q \in best : PeriodsKey(due(p)) < PeriodsKey(due(q)) THEN {p} ELSE best,
              {}, ParameterOrder)

\* Days until a task is due that a finding of this policy is about.
TaskDays(v, policy) ==
  {((task.hours * Max({0, 100 - Max(Usage(v, task))})) \div 100) \div Max({1, v.lastWeek \div Week}) :
     task \in {t \in Hourly : Consults(policy, "runtime") /\ \E used \in Usage(v, t) : used >= 70}}

\* When the work should happen: the days it starts and ends in, where there is
\* anything to go by, and on what basis.  A trend's dates count from the reading
\* it was fitted to last, and may be over.
ActionWindow(v, policy) ==
  LET trend == SoonestTrend(v)
      task == TaskDays(v, policy)
      NoDates(basis) == [basis |-> basis, dates |-> <<>>]
  IN IF task # {} /\ \A p \in trend : Min(task) < v.readings[p].due.periods
     THEN [basis |-> "calculated", dates |-> <<(3 * Min(task)) \div 4, Min(task)>>]
     ELSE IF trend = {} THEN NoDates("unknown")
     ELSE LET p == CHOOSE p \in trend : TRUE
              due == v.readings[p].due
          IN CASE due.basis = "calculated" -> [basis |-> "calculated", dates |-> <<0, 0>>]
               [] due.basis = "inferred" -> NoDates("inferred")
               [] due.basis = "estimated" ->
                    [basis |-> "estimated",
                     dates |-> <<due.earliest - v.ago[p], due.latest - v.ago[p]>>]

\* Everything a decision is made of, whichever policy makes it.
Facts(v) == [sums |-> ScoreParts(v), forced |-> ForcesAction(v), spent |-> Spent(v)]

Conclude(facts, policy, criticality) ==
  LET concern == Concern(facts.sums, policy)
      condition == concern >= 1000000 * Enough(policy, criticality) \/ facts.forced
      risk == RiskLevel(concern, criticality)
  IN [condition |-> condition, interval |-> facts.spent, concern |-> concern, risk |-> risk,
      priority |-> Priority(risk, condition \/ facts.spent, facts.forced)]

Required(answer) == answer.condition \/ answer.interval

\* The asset assessed under every policy as it stood on day d, or no answer
\* when nothing had been read.
AssessDay(kept, d) ==
  IF RunDays(d) = {} THEN NoAnswer
  ELSE LET v == View(kept, d)
           facts == Facts(v)
       IN {<<p, Conclude(facts, POLICIES[p], Criticality), ActionWindow(v, POLICIES[p])>> :
             p \in DOMAIN POLICIES}

-----------------------------------------------------------------------------
(* The record grows.                                                       *)

\* Another day, after which the features are computed again as a new version.
NextDay(rows) ==
  /\ Len(dailyRecord) < MaxDay
  /\ dailyRecord' = Append(dailyRecord, rows)
  /\ UNCHANGED <<tables, cached, filings, said>>

File(kept) ==
  /\ filings < MaxFilings /\ filings' = filings + 1
  /\ tables' = kept
  /\ UNCHANGED <<dailyRecord, cached, said>>

FileMaintenance(kind, task) ==
  File([tables EXCEPT !.log = @ \cup {[day |-> Len(dailyRecord), kind |-> kind, task |-> task]}])
FileFailure(mode) == File([tables EXCEPT !.failures[mode] = @ + 1])
CheckQuality(p, score) == File([tables EXCEPT !.quality[p] = score])

\* The engine is built once for a version of the features, with the other
\* tables as they are then.
AskEngine ==
  LET engine == IF cached.version = Len(dailyRecord) THEN cached
                ELSE [version |-> Len(dailyRecord), tables |-> tables]
  IN /\ cached' = engine
     /\ said' = [said EXCEPT ![Len(dailyRecord)] =
          IF @ = NoAnswer
          THEN [tables |-> engine.tables, answers |-> AssessDay(engine.tables, Len(dailyRecord))]
          ELSE @]
     /\ UNCHANGED <<dailyRecord, tables, filings>>

AssetNext ==
  \/ \E rows \in DayRows \cup {NoRows} : NextDay(rows)
  \/ \E kind \in {"corrective", "preventive"}, i \in DOMAIN Tasks :
       FileMaintenance(kind, Tasks[i].key)
  \/ \E mode \in ModeNames : FileFailure(mode)
  \/ \E p \in Parameters, score \in Scores : CheckQuality(p, score)
  \/ AskEngine

AssetSpec == AssetInit /\ [][AssetNext]_assetVars

AssetTypeOK ==
  /\ Len(dailyRecord) \in 1 .. MaxDay /\ filings \in 0 .. MaxFilings
  /\ \A d \in DOMAIN dailyRecord : dailyRecord[d] \in DayRows \cup {NoRows}
  /\ \A e \in tables.log : e.day \in DOMAIN dailyRecord
  /\ tables.quality \in [Parameters -> Scores \cup {NoScore}]

-----------------------------------------------------------------------------
(* Laws.                                                                   *)

\* What was said of a day is what is said of it later, however the record grows
\* and whatever is repaired afterwards; but the failures the class has had since
\* and the scores its instruments get are held against the past as well.
AsItStood ==
  \A d \in 1 .. MaxDay : said[d] # NoAnswer =>
    LET told == said[d].tables
        by(events) == {e \in events : e.day <= d}
    IN
    (/\ by(told.log) = by(tables.log)
     /\ told.failures = tables.failures /\ told.quality = tables.quality)
      => said[d].answers = AssessDay(tables, d)

\* Freshly repaired, an asset is not judged by how its readings moved, the rules
\* of the plant's engineers apart: they go on reading slopes across the repair.
RepairForgets(v) ==
  ~CleanWindow(v) =>
    LET still == [v EXCEPT !.readings = [p \in DOMAIN v.readings |->
                    [v.readings[p] EXCEPT !.slope = 0, !.z = 0, !.ratio = 0]]]
        unruled(facts) == [facts EXCEPT !.sums.engineering = 0]
    IN unruled(Facts(v)) = unruled(Facts(still))

\* An instrument that is trusted less never makes a decision to act of one not
\* to: doubt argues against the reading, not for it.
DoubtNeverAlarms(v, facts) ==
  \A q \in DOMAIN v.readings, worse \in Scores :
    (v.quality[q] # NoScore /\ worse < v.quality[q]) =>
      LET doubted == Facts([v EXCEPT !.quality[q] = worse]) IN
      \A p \in DOMAIN POLICIES : Required(Conclude(doubted, POLICIES[p], Criticality))
                                  => Required(Conclude(facts, POLICIES[p], Criticality))

\* The more an asset matters, the sooner it is seen to, and the adjusted policy
\* misses nothing of the full one on an asset that matters at least as most do.
CriticalityRaises(facts) ==
  LET Adjusted(i) == Conclude(facts, POLICIES["full_risk_adjusted"], CriticalityLevels[i])
      Full(i) == Conclude(facts, POLICIES["full"], CriticalityLevels[i])
  IN /\ \A i \in 1 .. 3 : /\ Required(Adjusted(i)) => Required(Adjusted(i + 1))
                           /\ Adjusted(i).priority <= Adjusted(i + 1).priority
     /\ \A i \in 2 .. 4 : Required(Full(i)) => Required(Adjusted(i))

\* "Two independent estimates, and the earlier one wins" (_window): an interval
\* that has run out is due today, and short of a limit already passed, a window
\* with dates is around one of the estimates there are, and none of the others
\* is in fewer days.  Days count from the reading an estimate rests on: one that
\* rests on an older reading may be due before the window all the same.
WindowsHold(v) ==
  \A p \in DOMAIN POLICIES :
    LET window == ActionWindow(v, POLICIES[p])
        known == {q \in DOMAIN v.readings : v.readings[q].due.basis # "unknown"}
        estimates == {[in |-> v.readings[q].due.periods, ago |-> v.ago[q]] : q \in known}
                     \cup {[in |-> days, ago |-> 0] : days \in TaskDays(v, POLICIES[p])}
    IN /\ (Spent(v) /\ Consults(POLICIES[p], "runtime")) => window.dates = <<0, 0>>
       /\ (window.dates # <<>> /\ \A q \in known : v.readings[q].due.periods # 0) =>
            \E first \in estimates :
              /\ first.in - first.ago \in window.dates[1] .. window.dates[2]
              /\ \A other \in estimates : first.in <= other.in

\* An asset is judged on its merits, on any day and in hindsight.  (What the
\* engine concludes depends on its tables alone: the laws of one assessment are
\* looked at before the first question.)
AssetLaws ==
  /\ AsItStood
  /\ (RunDays(Len(dailyRecord)) # {} /\ \A d \in 1 .. MaxDay : said[d] = NoAnswer) =>
       LET v == View(tables, Len(dailyRecord))
           facts == Facts(v)
       IN /\ RepairForgets(v) /\ DoubtNeverAlarms(v, facts)
          /\ CriticalityRaises(facts) /\ WindowsHold(v)
=============================================================================
