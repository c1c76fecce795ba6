---------------------------- MODULE AnalogEngines ---------------------------
(***************************************************************************)
(* The engines of the typhoon provider in one process (typhoon_analog/     *)
(* engine.py): each is fitted once, kept under its method and the shape of *)
(* the record it was fitted on, and shared by every run that asks for that *)
(* pair.  A prediction sets the engine's rain signal before it asks,       *)
(* attribute by attribute, and takes the rain typhoon by typhoon in the    *)
(* region the engine is set to by then; a backtest asks the engine as it   *)
(* is, one typhoon after another.  Whoever asks reads the rain of the      *)
(* typhoons one by one too.  Runs of different threads take their steps in *)
(* any order.                                                              *)
(***************************************************************************)
EXTENDS TrackMatching

CONSTANTS AnalogRuns,
          Asks,          \* what a run may ask
          TyphoonRecords,       \* what the catalogue dataset may hold
          NoRecord, Nobody

IsTrack(track) ==
  (track.coast = Far \/ track.coast \in Int) /\ track.features \in Int /\ track.path \in Seq(Int)

ASSUME AnalogAssumption ==
  /\ Nobody \notin AnalogRuns
  /\ \A ask \in Asks :
       /\ ask.kind \in {"predict", "backtest"}
       /\ ask.method \in Fused \cup {"coastline", "knn_optimized"}
       /\ IsTrack(ask.track) /\ ask.use \in BOOLEAN /\ ask.region \in Regions
       /\ ask.sample \subseteq Typhoons
       /\ ask.rain = NoRain \/ ask.rain \in Int
  /\ \A data \in TyphoonRecords, t \in Typhoons :
       /\ IsTrack(data.typhoons[t])
       /\ \A region \in Regions :
            data.typhoons[t].rain[region] = NoRain \/ data.typhoons[t].rain[region] \in Int

VARIABLES storedRecord,  \* the catalogue dataset
          engines,       \* _ENGINES
          fitting,       \* who holds _LOCK
          analogRun

analogVars == <<storedRecord, engines, fitting, analogRun>>

\* The key of an engine: a record is known by its rows and columns only.
KeyOf(method, data) == <<method, data.shape>>

RainTable(data, region) == [t \in Typhoons |-> data.typhoons[t].rain[region]]

\* _build_similarity and fit.  `read` is the record it was fitted on, `setters`
\* are the runs that assigned to it since the last one began to set it.
FittedEngine(method, data) ==
  LET rains == method = "combined_rainfall"
  IN [read |-> data, setters |-> {}, use |-> rains, weight |-> IF rains THEN 15 ELSE 0,
      region |-> DefaultRegion,
      table |-> IF rains THEN RainTable(data, DefaultRegion) ELSE <<>>]

SettingsOf(engine) == [use |-> engine.use, weight |-> engine.weight, table |-> engine.table]

AnalogInit ==
  /\ storedRecord \in TyphoonRecords
  /\ engines = <<>>
  /\ fitting = Nobody
  /\ \E ask \in [AnalogRuns -> Asks] :
       analogRun = [r \in AnalogRuns |->
         [ask |-> ask[r], step |-> "asked", read |-> NoRecord, found |-> <<>>,
          predicted |-> <<>>, rain |-> NoRain, taken |-> <<>>, with |-> NoRecord, by |-> {}]]

RunKey(r) == KeyOf(analogRun[r].ask.method, analogRun[r].read)
EngineOf(r) == engines[RunKey(r)]
Noted(kept, t, what) == [u \in DOMAIN kept \cup {t} |-> IF u = t THEN what ELSE kept[u]]
Step(r, from, to) == analogRun[r].step = from /\ analogRun' = [analogRun EXCEPT ![r].step = to]

\* The record is edited, or another one ingested.  (Bound: as long as a run is
\* left to read it; nobody sees a later edit.)
EditRecord(data) ==
  /\ data # storedRecord /\ \E r \in AnalogRuns : analogRun[r].step = "asked"
  /\ storedRecord' = data
  /\ UNCHANGED <<engines, fitting, analogRun>>

\* The execution hands over the dataset.
ReadCatalogue(r) ==
  /\ analogRun[r].step = "asked"
  /\ analogRun' = [analogRun EXCEPT ![r].step = "read", ![r].read = storedRecord]
  /\ UNCHANGED <<storedRecord, engines, fitting>>

\* get_engine: a fitted engine is taken without the lock, ...
TakeEngine(r) ==
  /\ analogRun[r].step = "read" /\ RunKey(r) \in DOMAIN engines
  /\ Step(r, "read", "engine")
  /\ UNCHANGED <<storedRecord, engines, fitting>>

LockEngines(r) ==
  /\ analogRun[r].step = "read" /\ RunKey(r) \notin DOMAIN engines /\ fitting = Nobody
  /\ Step(r, "read", "locked")
  /\ fitting' = r
  /\ UNCHANGED <<storedRecord, engines>>

\* ... and looked for again under it before one is fitted.
FitEngine(r) ==
  /\ Step(r, "locked", "engine")
  /\ fitting' = Nobody
  /\ engines' = [key \in DOMAIN engines \cup {RunKey(r)} |->
                   IF key \in DOMAIN engines THEN engines[key]
                   ELSE FittedEngine(analogRun[r].ask.method, analogRun[r].read)]
  /\ UNCHANGED storedRecord

\* configure_rainfall: what is asked for is set, one attribute after the other; ...
Assign(r, made) ==
  /\ engines' = [engines EXCEPT ![RunKey(r)] = made]
  /\ UNCHANGED <<storedRecord, fitting>>

SetUse(r) ==
  /\ analogRun[r].ask.kind = "predict" /\ analogRun[r].ask.method \in Fused
  /\ Step(r, "engine", "use")
  /\ Assign(r, [EngineOf(r) EXCEPT !.use = analogRun[r].ask.use, !.setters = {r}])

SetRegion(r) ==
  /\ Step(r, "use", "region")
  /\ Assign(r, [EngineOf(r) EXCEPT !.region = analogRun[r].ask.region, !.setters = @ \cup {r}])

SetWeight(r) ==
  LET ask == analogRun[r].ask
  IN /\ Step(r, "region", IF ask.use THEN "taking" ELSE "configured")
     /\ Assign(r, [EngineOf(r) EXCEPT !.weight = IF ask.use THEN ask.weight ELSE 0,
                                      !.setters = @ \cup {r}])

\* ... then the rain of each typhoon is taken, in the region set by then, ...
Untaken(r) == Typhoons \ DOMAIN analogRun[r].taken

TakeRain(r) ==
  LET t == Min(Untaken(r))
  IN /\ analogRun[r].step = "taking" /\ Untaken(r) # {}
     /\ analogRun' = [analogRun EXCEPT
          ![r].taken = Noted(@, t, EngineOf(r).read.typhoons[t].rain[EngineOf(r).region])]
     /\ UNCHANGED <<storedRecord, engines, fitting>>

\* ... and the table put in place of the one that was there.
\* Mutated: a table that is there is kept, whatever region it is of.
KeptTable(engine, taken) == IF engine.table = <<>> THEN taken ELSE engine.table

RetakenTable(engine, taken) == taken

PutRain(r) ==
  /\ analogRun[r].step = "taking" /\ Untaken(r) = {}
  /\ analogRun' = [analogRun EXCEPT ![r].step = "configured", ![r].taken = <<>>]
  /\ Assign(r, [EngineOf(r) EXCEPT !.table = RetakenTable(EngineOf(r), analogRun[r].taken),
                                   !.setters = @ \cup {r}])

\* Who is asked about: the track of a prediction, or in a backtest each typhoon
\* of the sample that has a category, in turn.
Sample(r) == {t \in analogRun[r].ask.sample : EngineOf(r).read.typhoons[t].category # NoCategory}
Unscored(r) == Sample(r) \ DOMAIN analogRun[r].found
About(r) == IF analogRun[r].ask.kind = "predict" THEN Query ELSE Min(Unscored(r))
TrackOf(r, t) == IF t = Query THEN analogRun[r].ask.track ELSE EngineOf(r).read.typhoons[t]

\* The rain it is compared by: the one expected of a track, a typhoon's own; none
\* when the engine is not to rank by rain or has no table.
RainAsked(ask) == IF ask.use THEN ask.rain ELSE NoRain

RainOf(method, engine, t, asked) ==
  LET counts == IF method = "coastline_rrf" THEN engine.weight > 0 ELSE engine.use
  IN IF ~ counts \/ engine.table = <<>> THEN NoRain
     ELSE IF t = Query THEN asked ELSE engine.table[t]

ReadyToAsk(r) ==
  LET run == analogRun[r]
  IN IF run.ask.kind = "predict"
     THEN run.step = (IF run.ask.method \in Fused THEN "configured" ELSE "engine")
     ELSE run.step = "engine" /\ Unscored(r) # {}

\* A track that cannot be compared fails the run.
StartRanking(r) ==
  LET ask == analogRun[r].ask
  IN /\ ReadyToAsk(r)
     /\ IF ask.kind = "predict" /\ ~ Answerable(ask.method, ask.track)
        THEN analogRun' = [analogRun EXCEPT ![r].step = "failed"]
        ELSE analogRun' = [analogRun EXCEPT ![r].step = "ranking",
               ![r].rain = RainOf(ask.method, EngineOf(r), About(r), RainAsked(ask))]
     /\ UNCHANGED <<storedRecord, engines, fitting>>

\* _rainfall_ranks looks each typhoon up in the table that is there by then.
RankRain(r) ==
  LET t == Min(Untaken(r))
  IN /\ analogRun[r].step = "ranking" /\ analogRun[r].rain # NoRain /\ Untaken(r) # {}
     /\ analogRun' = [analogRun EXCEPT ![r].taken = Noted(@, t, EngineOf(r).table[t])]
     /\ UNCHANGED <<storedRecord, engines, fitting>>

Ranked(r) ==
  /\ analogRun[r].step = "ranking"
  /\ analogRun[r].rain = NoRain \/ Untaken(r) = {}

\* The analogs by what was ranked and the weight that is set by then.
\* Mutated: the typhoon asked about is among those it is compared with.
AnalogsWithItself(r, t) ==
  Similar(analogRun[r].ask.method, EngineOf(r).read.typhoons,
          [use |-> TRUE, weight |-> EngineOf(r).weight, table |-> analogRun[r].taken],
          Query, TrackOf(r, t), analogRun[r].rain)

AnalogsFound(r, t) ==
  Similar(analogRun[r].ask.method, EngineOf(r).read.typhoons,
          [use |-> TRUE, weight |-> EngineOf(r).weight, table |-> analogRun[r].taken],
          t, TrackOf(r, t), analogRun[r].rain)

\* A prediction: the analogs of a track and their vote.
Predict(r) ==
  /\ analogRun[r].ask.kind = "predict" /\ Ranked(r)
  /\ \E best \in AnalogsFound(r, Query) :
       \E category \in Winners(EngineOf(r).read.typhoons, best) :
         analogRun' = [analogRun EXCEPT ![r] =
           [@ EXCEPT !.step = "done", !.found = Noted(<<>>, Query, best),
                     !.predicted = Noted(<<>>, Query, category),
                     !.rain = NoRain, !.taken = <<>>,
                     !.with = EngineOf(r).read, !.by = EngineOf(r).setters]]
  /\ UNCHANGED <<storedRecord, engines, fitting>>

\* A backtest: the same for one typhoon after another.
ScoreTyphoon(r) ==
  LET t == Min(Unscored(r))
  IN /\ analogRun[r].ask.kind = "backtest" /\ Ranked(r)
     /\ \E best \in AnalogsFound(r, t) :
          \E category \in Winners(EngineOf(r).read.typhoons, best) :
            analogRun' = [analogRun EXCEPT
              ![r].step = "engine", ![r].found = Noted(@, t, best),
              ![r].predicted = Noted(@, t, category), ![r].rain = NoRain, ![r].taken = <<>>]
     /\ UNCHANGED <<storedRecord, engines, fitting>>

EndBacktest(r) ==
  /\ analogRun[r].ask.kind = "backtest" /\ analogRun[r].step = "engine" /\ Unscored(r) = {}
  /\ analogRun' = [analogRun EXCEPT ![r].step = "done", ![r].with = EngineOf(r).read,
                                    ![r].by = EngineOf(r).setters]
  /\ UNCHANGED <<storedRecord, engines, fitting>>

AnalogNext ==
  \/ \E data \in TyphoonRecords : EditRecord(data)
  \/ \E r \in AnalogRuns :
       \/ ReadCatalogue(r) \/ TakeEngine(r) \/ LockEngines(r) \/ FitEngine(r)
       \/ SetUse(r) \/ SetRegion(r) \/ SetWeight(r) \/ TakeRain(r) \/ PutRain(r)
       \/ StartRanking(r) \/ RankRain(r) \/ Predict(r) \/ ScoreTyphoon(r) \/ EndBacktest(r)

AnalogSpec == AnalogInit /\ [][AnalogNext]_analogVars

-----------------------------------------------------------------------------
AnalogTypeOK ==
  /\ storedRecord \in TyphoonRecords
  /\ \A key \in DOMAIN engines :
       /\ engines[key].read \in TyphoonRecords /\ engines[key].setters \subseteq AnalogRuns
       /\ engines[key].use \in BOOLEAN /\ engines[key].weight \in Nat
       /\ engines[key].region \in Regions /\ DOMAIN engines[key].table \in {{}, Typhoons}
  /\ fitting \in AnalogRuns \cup {Nobody}
  /\ \A r \in AnalogRuns :
       /\ analogRun[r].ask \in Asks
       /\ analogRun[r].step \in {"asked", "read", "locked", "engine", "use", "region", "taking",
                                 "configured", "ranking", "done", "failed"}
       /\ DOMAIN analogRun[r].taken \subseteq Typhoons /\ analogRun[r].by \subseteq AnalogRuns
       /\ analogRun[r].taken # <<>> => analogRun[r].step \in {"taking", "ranking"}
       /\ DOMAIN analogRun[r].found = DOMAIN analogRun[r].predicted
       /\ DOMAIN analogRun[r].found \subseteq Typhoons \cup {Query}

Did(kind, r) == analogRun[r].step = "done" /\ analogRun[r].ask.kind = kind

\* An engine is found under the key of the record it was fitted on, and whoever
\* fits holds the lock alone.
OneEngineEach ==
  /\ \A key \in DOMAIN engines : key = KeyOf(key[1], engines[key].read)
  /\ \A r \in AnalogRuns : analogRun[r].step = "locked" => fitting = r

\* A prediction answers what an engine of its own would, whatever earlier ones
\* left in the shared one: unless another prediction assigned anything to that
\* engine after this one began to set it, be it only the table of rain it had
\* begun to take before, or the engine was fitted on another record of the same
\* shape (get_engine keys on rows and columns).
AnswersAsIfAlone(r) ==
  LET run == analogRun[r]
      ask == run.ask
      typhoons == run.read.typhoons
      settings == [use |-> ask.use, weight |-> IF ask.use THEN ask.weight ELSE 0,
                   table |-> IF ask.use THEN RainTable(run.read, ask.region) ELSE <<>>]
  IN /\ analogRun[r].step = "done" => run.with.shape = run.read.shape
     /\ Did("predict", r) /\ run.with = run.read /\ (ask.method \in Fused => run.by = {r}) =>
          run.found[Query] \in Similar(ask.method, typhoons, settings, Query, ask.track,
                                      RainAsked(ask))

\* What find_similar answers of a typhoon with the settings an engine has.
LeaveOneOut(method, catalogue, engine, t) ==
  Similar(method, catalogue, SettingsOf(engine), t, catalogue[t],
          IF t \in DOMAIN engine.table THEN engine.table[t] ELSE NoRain)

\* A backtest is of the method as it is built as long as no prediction has set
\* the engine, and never gives a typhoon the answer it is asked for.
ScoresTheMethod(r) ==
  LET run == analogRun[r]
      fresh == FittedEngine(run.ask.method, run.with)
  IN /\ run.ask.kind = "backtest" => \A t \in DOMAIN run.found : t \notin Range(run.found[t])
     /\ Did("backtest", r) /\ run.by = {} =>
          \A t \in DOMAIN run.found :
            run.found[t] \in LeaveOneOut(run.ask.method, run.with.typhoons, fresh, t)

\* Analogs are of the record, each once, no more than asked for; who votes for
\* nothing an analog is decides nothing.
AnalogsOfRecord(r) ==
  \A t \in DOMAIN analogRun[r].found :
    LET best == analogRun[r].found[t]
        categories == {EngineOf(r).read.typhoons[u].category : u \in Range(best)}
    IN /\ IsInjective(best) /\ Len(best) <= Analogs /\ Range(best) \subseteq Typhoons
       /\ analogRun[r].predicted[t] \in categories \cup {NoCategory}
       /\ analogRun[r].predicted[t] = NoCategory => categories \subseteq {NoCategory}

\* No typhoon is left out for one that is behind it on every signal that counts.
NoneUnfairlyBehind(r) ==
  LET run == analogRun[r]
      fusion == Fusion(run.ask.method, run.with.typhoons, SettingsOf(EngineOf(r)), Query,
                       run.ask.track, RainAsked(run.ask))
      place(s, t) == Rank(fusion.signals[s].list, t, Count)
      counts == {s \in DOMAIN fusion.signals : fusion.signals[s].weight > 0}
  IN Did("predict", r) /\ run.ask.method \in Fused /\ run.by = {r} /\ EngineOf(r).setters = {r} =>
       \A t \in fusion.candidates, u \in Range(run.found[Query]) :
         (\A s \in counts : place(s, t) < place(s, u)) =>
           /\ t \in Range(run.found[Query])
           /\ Rank(run.found[Query], t, Count) < Rank(run.found[Query], u, Count)

\* What is right, wrong and of which category adds up to what was scored.
ScoresAddUp(r) ==
  Did("backtest", r) =>
    LET typhoons == analogRun[r].with.typhoons
        score == Accuracy(typhoons, analogRun[r].predicted)
        categories == DOMAIN score.per_category
        right(pair) == IF pair[1] = pair[2] THEN score.confusion[pair] ELSE 0
    IN /\ score.total = MapThenSumSet(LAMBDA c : score.per_category[c].total, categories)
       /\ score.correct = MapThenSumSet(LAMBDA c : score.per_category[c].correct, categories)
       /\ score.total = MapThenSumSet(LAMBDA pair : score.confusion[pair], DOMAIN score.confusion)
       /\ score.correct = MapThenSumSet(right, DOMAIN score.confusion)
       /\ score.total = Cardinality({t \in DOMAIN analogRun[r].found :
            \E u \in Range(analogRun[r].found[t]) : typhoons[u].category # NoCategory})

\* Time warping is the cheapest of the walks along both paths that keep in the
\* band, the same from either side (compute_distance keeps one for both) and
\* nothing from a path to itself.
Walks(p, q) ==
  LET to[i \in 0 .. Len(p), j \in 0 .. Len(q)] ==
        IF i = 0 \/ j = 0 \/ ~InBand(i, j, BandOf(p, q)) THEN {}
        ELSE IF i = 1 /\ j = 1 THEN {<< <<1, 1>> >>}
        ELSE {Append(w, <<i, j>>) : w \in to[i - 1, j] \cup to[i, j - 1] \cup to[i - 1, j - 1]}
  IN to[Len(p), Len(q)]

WalkCost(w, p, q) ==
  FoldLeft(LAMBDA sum, c : sum + Apart(p[c[1]], q[c[2]]), 0, w)

WarpsCheapest ==
  (\A r \in AnalogRuns : analogRun[r].step = "asked") =>
    \A t, u \in Typhoons :
      LET p == storedRecord.typhoons[t].path
          q == storedRecord.typhoons[u].path
      IN /\ DtwCost(p, q) = Min({Infinite} \cup {WalkCost(w, p, q) : w \in Walks(p, q)})
         /\ DtwCost(p, q) = DtwCost(q, p)
         /\ p # <<>> => DtwCost(p, p) = 0

AnalogLaws ==
  /\ OneEngineEach
  /\ WarpsCheapest
  /\ \A r \in AnalogRuns :
       /\ AnswersAsIfAlone(r) /\ ScoresTheMethod(r) /\ AnalogsOfRecord(r)
       /\ NoneUnfairlyBehind(r) /\ ScoresAddUp(r)
=============================================================================
