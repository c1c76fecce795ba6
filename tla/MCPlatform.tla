----------------------------- MODULE MCPlatform -----------------------------
(***************************************************************************)
(* The components around the data: what the computations say of a table,   *)
(* what the catalogue can trace and show, what a start of the application  *)
(* builds.  Each moves on a small instance of its own; `stage`, chosen at  *)
(* the start, names the one that does.                                     *)
(***************************************************************************)
EXTENDS Transforms, Scoring, Series, Lineage, Publishing, Reports,
        Charts, AssetEngine, AnalogEngines, StorageCache, Seeding,
        WorkedExample

CONSTANTS n1, n2, h1, h2, h3,         \* processes, and threads of theirs
          likeCol, consCol, gaugeCol,   \* columns of a scored record
          northern, southern,               \* regions of rain
          Stages                        \* the components that move

VARIABLE stage

-----------------------------------------------------------------------------
(* Constants: tables and the models that read them.                        *)

Reading(k, t, v) == [k |-> k, t |-> t, v |-> v]
SomeReadings ==
  [k : {"A"}, t : {Num(1), Num(2), Num(4)}, v : {Num(1), Num(3)}]
  \cup {Reading("A", Null, Num(1)), Reading("A", Num(2), Null), Reading("A", Num(4), Word),
        Reading("B", Num(1), Num(0)), Reading("B", Num(2), Num(3))}

Band(upto, score) == [upto |-> upto, score |-> score]
Component(column, weight, kind, good, bad, bands, missing) ==
  [column |-> column, weight |-> weight, kind |-> kind, good |-> good, bad |-> bad,
   bands |-> bands, missing |-> missing, neutral_score |-> 60]

\* One of every kind and of every answer to a missing reading.
SomeComponents ==
  << Component(likeCol, 2, "linear", 0, 4, <<>>, "skip"),
     Component(consCol, 1, "linear", 4, 0, <<>>, "worst"),
     Component(gaugeCol, 1, "bands", 0, 0, <<Band(1, 100), Band(2, 60), Band(3, 10)>>, "neutral"),
     Component(gaugeCol, 2, "boolean", 0, 0, <<>>, "skip"),
     Component(likeCol, 1, "passthrough", 0, 0, <<>>, "best") >>
SomeEdges == [likelihood |-> [column |-> likeCol, bands |-> <<1, 3>>, default |-> {2}],
              consequence |-> [column |-> consCol, bands |-> <<2>>, default |-> {}]]
SomeGrid == <<<<"low", "medium">>, <<"medium", "high">>, <<"high", "extreme">>>>
SomeOrder == <<"low", "medium", "high", "extreme">>
SomeRules == << [column |-> likeCol, above |-> 3, then |-> "stop"],
                [column |-> consCol, above |-> 1, then |-> "look"],
                [column |-> likeCol, above |-> 1, then |-> "look"] >>

SomeSettings ==
  [outlier_factor |-> 1, outliers_from |-> 4, flatline |-> 3, stuck |-> 4,
   step_window |-> 1, step_from |-> 4, step_ratio |-> 1, interval |-> 1, gap_tolerance |-> 1,
   drift_from |-> 4, drift_sigma |-> 1, window |-> 4, minimum |-> 1, maximum |-> 3]
SomeQuestion == [min_points |-> 3, r_squared |-> <<1, 3>>, horizon |-> 6, confidence |-> 2]
SomeLimits == <<2, 6, 9>>

SomeCapacity ==
  [k \in Kinds |-> CASE k = "dataset" -> 2 [] k = "dataset_version" -> 3 [] OTHER -> 1]

ThreadsOfTwo == [t \in {h1, h2, h3} |-> IF t = h3 THEN n2 ELSE n1]

SomeStated == <<3, 1>>
SomeSizes == {<<3, 2>>, <<6, 4>>, <<12, 2>>}

-----------------------------------------------------------------------------
(* Constants: an asset, a catalogue to seed, a chain of derived tables.    *)

Projected(basis, earliest, per, latest) ==
  [basis |-> basis, earliest |-> earliest, periods |-> per, latest |-> latest]
Measurement(dev, prog, rank, slope, fit, z, ratio, due) ==
  [deviation |-> dev, progress |-> prog, rank |-> rank, slope |-> slope, fit |-> fit,
   z |-> z, ratio |-> ratio, due |-> due]

calm  == Measurement(1, 2, 0, 0, Unknown, 0, 10, Projected("unknown", 0, 0, 0))
drift == Measurement(12, 30, 1, 60, 80, 2, 12, Projected("estimated", 4, 6, 9))
early == Measurement(9, 24, 0, 40, 10, 1, 20, Projected("estimated", 2, 5, 5))
noisy == Measurement(9, 24, 0, 40, 10, 1, 20, Projected("inferred", 20, 20, 20))
gone  == Measurement(60, 104, 3, 200, 90, 5, 40, Projected("calculated", 0, 0, 0))

SomeOrderOfMeasurements == <<"current", "pressure", "vibration">>
SomeDays ==
  { [p \in {"current", "pressure", "vibration"} |-> calm],
    [p \in {"current", "pressure", "vibration"} |->
       CASE p = "current" -> early [] p = "pressure" -> noisy [] p = "vibration" -> gone],
    [p \in {"pressure", "vibration"} |-> IF p = "vibration" THEN drift ELSE noisy] }
SomeModes ==
  << [key |-> "bearing",
      effects |-> [p \in {"current", "vibration"} |-> IF p = "current" THEN 1 ELSE 3]],
     [key |-> "clog",
      effects |-> [p \in {"pressure", "current"} |-> IF p = "pressure" THEN 2 ELSE 1]] >>
SomeTasks == << [key |-> "grease", hours |-> 20, days |-> 0],
                [key |-> "overhaul", hours |-> 0, days |-> 2] >>

RuleOf(named, when, over, under, weight, confidence) ==
  [key |-> named, when |-> when, over |-> over, under |-> under, weight |-> weight,
   confidence |-> confidence]
NoLimits == [p \in {} |-> 0]
SomeEngineRules ==
  << RuleOf("bearing", "together", [p \in {"current", "vibration"} |-> 8], NoLimits, 3400, 80),
     RuleOf("clog", "together", [p \in {"pressure", "current"} |-> 6],
            [p \in {"vibration"} |-> 12], 2400, 80),
     RuleOf("rising", "rising", NoLimits, NoLimits, 2000, 65),
     RuleOf("distrusted", "distrusted", NoLimits, NoLimits, 0 - 3000, 75),
     RuleOf("due", "due", NoLimits, NoLimits, 1800, 90),
     RuleOf("alone", "alone", NoLimits, NoLimits, 0 - 1800, 60),
     RuleOf("short", "short", NoLimits, NoLimits, 0 - 1200, 90) >>
SomeScores == {20, 65}

Typhoon(coast, features, path, class, category, north, south) ==
  [coast |-> coast, features |-> features, path |-> path, class |-> class,
   category |-> category, rain |-> [region \in Regions |-> IF region = northern THEN north ELSE south]]

\* A record, the same edited (one typhoon came nearer and was classed anew) and
\* one with a column more.
OldTyphoons == << Typhoon(1, 7, <<1, 2, 4>>, "a", "1", 30, NoRain),
                  Typhoon(5, 3, <<2, 2>>, "b", "2", 10, 40),
                  Typhoon(Far, 4, <<6, 1, 1, 0>>, "a", NoCategory, NoRain, 20),
                  Typhoon(2, 9, <<5>>, "b", "1", 50, 10) >>
SomeRecords ==
  {[shape |-> 1, typhoons |-> OldTyphoons],
   [shape |-> 1, typhoons |-> [OldTyphoons EXCEPT ![3].coast = 4, ![3].category = "2"]],
   [shape |-> 2, typhoons |-> OldTyphoons]}
NearTrack == [coast |-> 4, features |-> 4, path |-> <<2, 2>>, class |-> "b"]
MixedTrack == [coast |-> 2, features |-> 6, path |-> <<2, 2>>, class |-> "b"]
FarTrack == [coast |-> Far, features |-> 8, path |-> <<4, 1, 1>>, class |-> "a"]

Asked(kind, method, track, use, region, weight, rain, sample) ==
  [kind |-> kind, method |-> method, track |-> track, use |-> use, region |-> region,
   weight |-> weight, rain |-> rain, sample |-> sample]
SomeAsks ==
  {Asked("predict", "coastline_rrf", NearTrack, TRUE, northern, 80, 15, {}),
   Asked("predict", "coastline_rrf", NearTrack, TRUE, southern, 80, 15, {}),
   Asked("predict", "coastline_rrf", MixedTrack, FALSE, northern, 80, NoRain, {}),
   Asked("predict", "combined_rainfall", NearTrack, TRUE, southern, 15, 35, {}),
   Asked("predict", "combined_rainfall", NearTrack, FALSE, southern, 15, 35, {}),
   Asked("predict", "coastline", FarTrack, FALSE, northern, 0, NoRain, {}),
   Asked("predict", "knn_optimized", NearTrack, FALSE, northern, 0, NoRain, {}),
   Asked("backtest", "coastline_rrf", NearTrack, FALSE, northern, 0, NoRain, {1, 2, 3}),
   Asked("backtest", "combined_rainfall", NearTrack, FALSE, northern, 0, NoRain, {1, 3, 4})}

SomeCore ==
  [sales |-> "Sales", revenue |-> "Revenue formula",
   models |-> {"Revenue formula", "Revenue trend"}, byProduct |-> "Revenue by product",
   overTime |-> "Revenue over time", overview |-> "Sales overview", app |-> "Sales analytics"]

\* A resource a plugin brings: what it needs and what it is made of.
Brings(kind, name, needs, parts) ==
  [kind |-> kind, name |-> name, needs |-> needs, parts |-> parts]
SomeContributions ==
  << [project |-> "Typhoons",
      fixture |-> << Brings("models", "analog", {}, {}),
                     Brings("applications", "forecast", {}, {"analog"}) >>,
      built |-> <<>>],
     [project |-> "Maintenance",
      fixture |-> << Brings("sources", "readings file", {}, {}),
                     Brings("datasets", "readings", {"readings file"}, {}),
                     Brings("visualizations", "levels", {"readings"}, {}),
                     Brings("dashboards", "plant", {}, {"levels"}),
                     Brings("applications", "upkeep", {}, {"readings", "plant", "fleet"}) >>,
      built |-> << Brings("dashboards", "fleet", {"readings"}, {}) >>] >>

Derived(name, input, model, needed) ==
  [name |-> name, input |-> input, model |-> model, needed |-> needed]
SomeChain == << Derived("daily", "telemetry", FALSE, TRUE),
                Derived("features", "daily", FALSE, TRUE),
                Derived("evidence", "features", TRUE, FALSE) >>

-----------------------------------------------------------------------------
platformVars == <<stage, transformVars, record, seriesVars, catalogueVars,
                  publishingVars, reportVars, chartVars, assetVars, analogVars,
                  storageVars, seedVars, exampleVars>>

\* Where a component that does not move is left.
PublishingRest == application = CHOOSE row \in ApplicationRows :
                    /\ row.status = "draft" /\ ~row.link /\ row.token = NoToken
                    /\ row.dashboards /\ ~row.entrypoint
\* Where publishing starts: a built-in application with a page or without, or a
\* composed one; all with something on them.
PublishingStart == application.dashboards /\ (application.entrypoint => application.kind = "builtin")
\* Where reports start: with one section, a table of the cited row.
ReportsStart == report.sections[1].kind = "table"
ReportsRest == report.sections = <<[kind |-> "text", of |-> NoCitation]>>
AnalogsRest == /\ storedRecord.shape = 1
               /\ \A r \in AnalogRuns : analogRun[r].ask = CHOOSE ask \in Asks : TRUE
\* Where the analogs start: runs that share a method.
AnalogsStart == \A r, q \in AnalogRuns : analogRun[r].ask.method = analogRun[q].ask.method
StorageRest == /\ blob = CHOOSE content \in Contents : TRUE
               /\ cacheDir = [p \in Processes |-> p]
AssetsRest == dailyRecord = <<CHOOSE d \in DayRows : TRUE>>

Init ==
  /\ stage \in Stages
  /\ TransformInit
  /\ ScoringInit
  /\ SeriesInit
  /\ CatalogueInit
  /\ PublishingInit /\ PublishingStart /\ (stage # "publishing" => PublishingRest)
  /\ ReportInit
  /\ IF stage = "reports" THEN ReportsStart ELSE ReportsRest
  /\ ChartInit
  /\ AssetInit /\ (stage # "assets" => AssetsRest)
  /\ AnalogInit /\ storedRecord.typhoons = OldTyphoons /\ AnalogsStart
  /\ stage # "analogs" => AnalogsRest
  /\ StorageInit /\ (stage # "storage" => StorageRest)
  /\ SeedingInit
  /\ ExampleInit

TransformsMove ==
  /\ stage = "transforms" /\ TransformNext
  /\ UNCHANGED <<stage, analogVars, storageVars, record, seriesVars, catalogueVars,
                 publishingVars, reportVars, chartVars, assetVars, seedVars,
                 exampleVars>>

ScoringMoves ==
  /\ stage = "scoring" /\ ScoringNext
  /\ UNCHANGED <<stage, analogVars, storageVars, transformVars, seriesVars, catalogueVars,
                 publishingVars, reportVars, chartVars, assetVars, seedVars,
                 exampleVars>>

SeriesMoves ==
  /\ stage = "series" /\ SeriesNext
  /\ UNCHANGED <<stage, analogVars, storageVars, transformVars, record, catalogueVars,
                 publishingVars, reportVars, chartVars, assetVars, seedVars,
                 exampleVars>>

CatalogueMoves ==
  /\ stage = "catalogue" /\ CatalogueNext
  /\ UNCHANGED <<stage, analogVars, storageVars, transformVars, record, seriesVars,
                 publishingVars, reportVars, chartVars, assetVars, seedVars,
                 exampleVars>>

PublishingMoves ==
  /\ stage = "publishing" /\ PublishingNext
  /\ UNCHANGED <<stage, analogVars, storageVars, transformVars, record, seriesVars,
                 catalogueVars, reportVars, chartVars, assetVars, seedVars,
                 exampleVars>>

ReportsMove ==
  /\ stage = "reports" /\ ReportNext
  /\ UNCHANGED <<stage, analogVars, storageVars, transformVars, record, seriesVars,
                 catalogueVars, publishingVars, chartVars, assetVars, seedVars,
                 exampleVars>>

ChartsMove ==
  /\ stage = "charts" /\ ChartNext
  /\ UNCHANGED <<stage, analogVars, storageVars, transformVars, record, seriesVars,
                 catalogueVars, publishingVars, reportVars, assetVars, seedVars,
                 exampleVars>>

AssetMoves ==
  /\ stage = "assets" /\ AssetNext
  /\ UNCHANGED <<stage, analogVars, storageVars, transformVars, record, seriesVars,
                 catalogueVars, publishingVars, reportVars, chartVars, seedVars,
                 exampleVars>>

StorageMoves ==
  /\ stage = "storage" /\ StorageNext
  /\ UNCHANGED <<stage, analogVars, transformVars, record, seriesVars,
                 catalogueVars, publishingVars, reportVars, chartVars,
                 assetVars, seedVars, exampleVars>>

AnalogsMove ==
  /\ stage = "analogs" /\ AnalogNext
  /\ UNCHANGED <<stage, storageVars, transformVars, record, seriesVars,
                 catalogueVars, publishingVars, reportVars, chartVars,
                 assetVars, seedVars, exampleVars>>

ServersStart ==
  /\ stage = "seeding" /\ SeedingNext
  /\ UNCHANGED <<stage, analogVars, storageVars, transformVars, record, seriesVars,
                 catalogueVars, publishingVars, reportVars, chartVars,
                 assetVars, exampleVars>>

ExampleMoves ==
  /\ stage = "example" /\ ExampleNext
  /\ UNCHANGED <<stage, analogVars, storageVars, transformVars, record, seriesVars,
                 catalogueVars, publishingVars, reportVars, chartVars,
                 assetVars, seedVars>>

Next == \/ TransformsMove \/ ScoringMoves \/ SeriesMoves
        \/ CatalogueMoves \/ PublishingMoves \/ ReportsMove \/ ChartsMove
        \/ AssetMoves \/ AnalogsMove \/ StorageMoves \/ ServersStart \/ ExampleMoves

PlatformSpec == Init /\ [][Next]_platformVars

-----------------------------------------------------------------------------
\* The variables of the component that moves stay in their types.
PlatformTypeOK ==
  /\ stage = "transforms" => TransformTypeOK
  /\ stage = "scoring" => ScoringTypeOK
  /\ stage = "series" => SeriesTypeOK
  /\ stage = "catalogue" => CatalogueTypeOK
  /\ stage = "publishing" => PublishingTypeOK
  /\ stage = "reports" => ReportTypeOK
  /\ stage = "charts" => ChartTypeOK
  /\ stage = "assets" => AssetTypeOK
  /\ stage = "analogs" => AnalogTypeOK
  /\ stage = "storage" => StorageTypeOK
  /\ stage = "seeding" => SeedingTypeOK
  /\ stage = "example" => ExampleTypeOK

\* What the computations say of a table is said of its rows and not of the order
\* they arrived in, loses none of them and agrees with itself: the transforms
\* (python_function), the scoring models, the checks and projections of a
\* series, the charts and the analogs of a typhoon; and what the catalogue
\* traces of a result or a dataset agrees with what was made of what.
DataLaws == /\ stage = "transforms" => TransformLaws
            /\ stage = "scoring" => ScoreLaws
            /\ stage = "series" => SeriesLaws
            /\ stage = "charts" => ChartLaws
            /\ stage = "analogs" => AnalogLaws
            /\ stage = "catalogue" => TraceableAndReadable

\* What the engine says of an asset follows from the asset's record.
AssetsJudged == stage = "assets" => AssetLaws
=============================================================================
