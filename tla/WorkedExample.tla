---------------------------- MODULE WorkedExample ----------------------------
(***************************************************************************)
(* The maintenance example (asset_maintenance/seed/worked_example.py): at  *)
(* every start the data files are read again where they were rewritten,    *)
(* and a chain of tables derived from them is brought up to date, each     *)
(* link reused unless it is older than what it is derived from.  Between   *)
(* starts people run the same pipelines and models themselves.  The tables *)
(* a link looks things up in, beside its input, are left out: no start     *)
(* compares their age with anything.                                       *)
(***************************************************************************)
EXTENDS Integers, FiniteSets, Sequences, SequencesExt

CONSTANTS Telemetry, \* the table that is read from the files
          Chain,     \* pipelines and models, in the order they are run: [name,
                     \* input, model, needed], where the rest needs its output
          Featured,  \* the pipeline whose output the comparison is run on
          MaxExampleStarts, MaxEvents  \* what happens between starts

VARIABLES clock,      \* moments: a version is one's number
          stamp,      \* when the files were last written
          version,    \* table -> when its current version was made, and of what
          runs,       \* pipeline -> its latest run, when it began and how it ended
          airborne,   \* runs of people's that have not ended
          comparison, \* the version the experiment is pinned to, the one it was
                      \* run on, and whether running it again failed
          late,       \* tables whose last writer had been overtaken
          seedings, events

exampleVars == <<clock, stamp, version, runs, airborne, comparison, late, seedings, events>>

ChainLinks == {Chain[i] : i \in DOMAIN Chain}
LinkNames == {link.name : link \in ChainLinks}
ExampleTables == {Telemetry} \cup LinkNames

\* A link is run once, after what it is derived from.
ASSUME ChainAssumption ==
  /\ Featured \in LinkNames
  /\ Chain \in Seq([name : LinkNames, input : ExampleTables, model : BOOLEAN, needed : BOOLEAN])
  /\ \A i \in DOMAIN Chain :
       /\ Chain[i].name \notin {Telemetry} \cup {Chain[j].name : j \in 1..(i - 1)}
       /\ Chain[i].input \in {Telemetry} \cup {Chain[j].name : j \in 1..(i - 1)}

Nothing == [at |-> 0, of |-> 0]
NoRun == [at |-> 0, ok |-> FALSE]

ExampleInit ==
  /\ clock = 2 /\ stamp = 1
  /\ version = [t \in ExampleTables |-> Nothing]
  /\ runs = [l \in LinkNames |-> NoRun]
  /\ airborne = {} /\ late = {} /\ seedings = 0 /\ events = 0
  /\ comparison = [pinned |-> 0, ran |-> 0, failed |-> FALSE]

-----------------------------------------------------------------------------
(* One start, from what is there to what it leaves: `fetched` is the       *)
(* telemetry's version as it has it in hand, `gone` are the tables it did  *)
(* not get, `over` that it gave up.                                        *)

\* The telemetry is there once the fixture has been loaded, and is fetched then;
\* it is read again after that if the files are newer, unless that fails.
RefreshStale(it, failing) ==
  LET read == [it EXCEPT !.clock = @ + 1, !.version[Telemetry] = [at |-> it.clock, of |-> stamp]]
  IN IF it.version[Telemetry] = Nothing THEN [read EXCEPT !.fetched = it.clock]
     ELSE IF Telemetry \notin failing /\ it.version[Telemetry].at < stamp THEN read
     ELSE it

\* Mutated: a run that succeeded is reused whatever it was run on.
NeverOlder(it, link) == FALSE

\* A run is held against its input as it was handed on: the telemetry as it was
\* fetched, what is derived as it is now.
HandedOn(it, input) == IF input = Telemetry THEN it.fetched ELSE it.version[input].at

OlderThanInput(it, link) == it.runs[link.name].at < HandedOn(it, link.input)
OutputIsStale(it, link) == it.version[link.name].at < it.version[link.input].at

Reused(it, link) ==
  IF link.model THEN it.version[link.name] # Nothing /\ ~OutputIsStale(it, link)
                ELSE it.runs[link.name].ok /\ ~OlderThanInput(it, link)

\* A link that cannot be had is done without, or is the end of this start.
Missed(it, link) == [it EXCEPT !.gone = @ \cup {link.name}, !.over = @ \/ link.needed]

RunLink(it, link, failing) ==
  IF it.over THEN it
  ELSE IF link.input \in it.gone THEN Missed(it, link)
  ELSE IF Reused(it, link) THEN it
  ELSE LET ran == [at |-> it.clock, ok |-> link.name \notin failing]
           begun == [it EXCEPT !.clock = @ + 2, !.runs[link.name] = ran]
       IN IF ~ran.ok THEN Missed(begun, link)
          ELSE [begun EXCEPT !.version[link.name] = [at |-> it.clock + 1, of |-> it.version[link.input].at],
                             !.late = @ \ {link.name}]

\* The comparison is run again when the version it is pinned to is no longer
\* the one everything else reads; it is pinned to that one first.
SeedComparison(it, failing) ==
  LET features == it.version[Featured].at
      failed == "comparison" \in failing
  IN IF it.over \/ (it.comparison.ran # 0 /\ it.comparison.pinned = features) THEN it
     ELSE [it EXCEPT !.comparison =
             [pinned |-> features, failed |-> @.failed \/ failed, ran |-> IF failed THEN @.ran ELSE features]]

RunChain(it, failing) ==
  FoldLeft(LAMBDA sofar, link : RunLink(sofar, link, failing), it, Chain)

AtStart == [clock |-> clock, version |-> version, runs |-> runs, comparison |-> comparison,
             late |-> late, fetched |-> version[Telemetry].at, gone |-> {}, over |-> FALSE]
SeedExample(failing) == SeedComparison(RunChain(RefreshStale(AtStart, failing), failing), failing)

StartExample(failing) ==
  /\ seedings < MaxExampleStarts /\ seedings' = seedings + 1
  /\ LET it == SeedExample(failing) IN
     /\ clock' = it.clock /\ version' = it.version /\ runs' = it.runs
     /\ comparison' = it.comparison /\ late' = it.late
  /\ UNCHANGED <<stamp, airborne, events>>

-----------------------------------------------------------------------------
(* Between starts.                                                         *)

Happens == events < MaxEvents /\ events' = events + 1 /\ clock' = clock + 1

Regenerate ==
  /\ Happens /\ stamp' = clock
  /\ UNCHANGED <<version, runs, airborne, comparison, late, seedings>>

RefreshTelemetry ==
  /\ version[Telemetry] # Nothing
  /\ Happens /\ version' = [version EXCEPT ![Telemetry] = [at |-> clock, of |-> stamp]]
  /\ UNCHANGED <<stamp, runs, airborne, comparison, late, seedings>>

\* Somebody runs a pipeline or a model: it reads its input's version of then.
Launch(link) ==
  /\ version[link.input] # Nothing
  /\ Happens
  /\ airborne' = airborne \cup {[link |-> link, began |-> clock, read |-> version[link.input].at]}
  /\ runs' = [runs EXCEPT ![link.name] = [at |-> clock, ok |-> FALSE]]
  /\ UNCHANGED <<stamp, version, comparison, late, seedings>>

\* It ends after its input got a newer version: nothing shows that what it wrote
\* is of an older one, unless it is a pipeline's latest run, whose age tells.
Overtaken(run) ==
  /\ run.read # version[run.link.input].at
  /\ run.link.model \/ runs[run.link.name].at # run.began

Land(run, ok) ==
  LET l == run.link.name IN
  /\ clock' = clock + 1
  /\ airborne' = airborne \ {run}
  /\ runs' = [runs EXCEPT ![l].ok = IF @ \/ runs[l].at # run.began THEN @ ELSE ok]
  /\ version' = IF ok THEN [version EXCEPT ![l] = [at |-> clock, of |-> run.read]] ELSE version
  /\ late' = IF ~ok THEN late ELSE IF Overtaken(run) THEN late \cup {l} ELSE late \ {l}
  /\ UNCHANGED <<stamp, comparison, seedings, events>>

Failures == {{}} \cup {{l} : l \in {"comparison"} \cup ExampleTables}

ExampleNext ==
  \/ \E failing \in Failures : StartExample(failing)
  \/ Regenerate
  \/ RefreshTelemetry
  \/ \E link \in ChainLinks : Launch(link)
  \/ \E run \in airborne, ok \in BOOLEAN : Land(run, ok)

ExampleSpec == ExampleInit /\ [][ExampleNext]_exampleVars

ExampleTypeOK ==
  /\ stamp < clock
  /\ \A t \in DOMAIN version : version[t].of <= version[t].at /\ version[t].at < clock
  /\ \A run \in airborne : run.began < clock

-----------------------------------------------------------------------------
(* A chain does not "come to disagree with itself quietly": once a start   *)
(* is over in which nothing failed, the telemetry is of the files there    *)
(* are, every table is of the current version of what it is derived from,  *)
(* and the scores are of the features the rest of the platform reads       *)
(* (worked_example.py:296, 876).  Except that a pipeline over the          *)
(* telemetry goes by the version this start found: the start that reads    *)
(* the files again may leave its table of the version before, and the      *)
(* next one makes it anew.  What may still disagree is a table a run that  *)
(* had been overtaken wrote last, and scores whose computation failed      *)
(* once: they are pinned to the new version and never retried.             *)
VersionFound ==
  IF version[Telemetry] = Nothing THEN version'[Telemetry].at ELSE version[Telemetry].at

AgreesNow ==
  /\ version'[Telemetry].of = stamp
  /\ \A link \in ChainLinks :
       \/ link.name \in late'
       \/ version'[link.name].of = version'[link.input].at
       \/ ~link.model /\ link.input = Telemetry /\ version'[link.name].of = VersionFound
  /\ comparison'.pinned = version'[Featured].at
  /\ comparison'.ran = comparison'.pinned \/ comparison'.failed

ChainAgrees == [][StartExample({}) => AgreesNow]_exampleVars
=============================================================================
