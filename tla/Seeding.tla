------------------------------- MODULE Seeding -------------------------------
(***************************************************************************)
(* What is put in place whenever a server starts (core/seed.py, the        *)
(* fixtures of plugins/fixtures.py): everything is looked up by name and   *)
(* made where it is missing.  A start is one transaction with a savepoint  *)
(* around each step and each plugin; servers may start together, and       *)
(* between starts people delete and change what was seeded.                *)
(***************************************************************************)
EXTENDS Integers, FiniteSets, Sequences, SequencesExt

CONSTANTS Core,          \* names of the walkthrough: sales, models, charts, board, app
          Contributions, \* what each plugin brings, in order: the name of its
                         \* project, its fixture and what its code builds
          Refusable,     \* names the platform may refuse to make
          Fragile,       \* steps, and plugins' projects, something else may go wrong in
          Servers, MaxStarts, MaxEdits

Projects == {Contributions[c].project : c \in DOMAIN Contributions}
ASSUME SeedingAssumption ==
  Fragile \subseteq Projects \cup {"sales", "models", "golden path", "applications"}

VARIABLES catalogued, \* name -> how many there are, what it bundles, whether it is published
          starting,   \* server -> the start it is in, if any
          starts, edits,
          discarded,  \* names somebody deleted
          raced       \* two starts overlapped

seedVars == <<catalogued, starting, starts, edits, discarded, raced>>

Plugins == DOMAIN Contributions
Specs(c) == Contributions[c].fixture \o Contributions[c].built
SpecsOf(c) == {Specs(c)[i] : i \in DOMAIN Specs(c)}
CoreNames == {Core.sales, Core.byProduct, Core.overTime, Core.overview, Core.app} \cup Core.models
PluginNames(c) == {Contributions[c].project} \cup {spec.name : spec \in SpecsOf(c)}
Everything == CoreNames \cup UNION {PluginNames(c) : c \in Plugins}
\* What the walkthrough makes along with its first chart, without a look.
Unchecked == {Core.overTime, Core.overview}

\* A resource a plugin brings, what must be there for it to be made, and what
\* it is made of.
FixtureSections ==
  {"sources", "datasets", "models", "visualizations", "dashboards", "applications"}
Declared == [kind : FixtureSections, name : Everything,
             needs : SUBSET Everything, parts : SUBSET Everything]
ASSUME ContributionsAssumption ==
  Contributions \in Seq([project : Everything, fixture : Seq(Declared), built : Seq(Declared)])

\* A name is that of one thing of one kind: nobody else makes what is unchecked.
ASSUME UncheckedAssumption ==
  /\ Core.overTime # Core.overview
  /\ Unchecked \cap (Core.models \cup {Core.sales, Core.byProduct, Core.app}
                     \cup UNION {PluginNames(c) : c \in Plugins}) = {}

\* What a plugin brings can be had in two passes: some declarations need only
\* such ones before them, what the code half builds needs those and what it built
\* before, and what is left needs declarations before it or what was built.
\* Applications are declared, and of what was declared before them or built.
NamesAt(specs, places) == {specs[i].name : i \in places}
ASSUME OrderAssumption ==
  \A c \in Plugins :
    LET fixture == Contributions[c].fixture
        built == Contributions[c].built
    IN /\ \E first \in SUBSET DOMAIN fixture :
            /\ \A i \in first : fixture[i].needs \subseteq NamesAt(fixture, {j \in first : j < i})
            /\ \A i \in DOMAIN built :
                 built[i].needs \subseteq NamesAt(fixture, first) \cup NamesAt(built, 1..(i - 1))
       /\ \A i \in DOMAIN fixture :
            LET had == NamesAt(fixture, 1..(i - 1)) \cup NamesAt(built, DOMAIN built) IN
            /\ fixture[i].needs \subseteq had
            /\ fixture[i].kind = "applications" => fixture[i].parts \subseteq had
       /\ \A i \in DOMAIN built : built[i].kind # "applications"

\* A declaration is of one thing, and no two plugins bring the same.
ASSUME ApartAssumption ==
  /\ \A c \in Plugins : \A i, j \in DOMAIN Contributions[c].fixture :
       i # j => Contributions[c].fixture[i].name # Contributions[c].fixture[j].name
  /\ \A c, d \in Plugins : c # d => PluginNames(c) \cap PluginNames(d) = {}

NotThere == [copies |-> 0, parts |-> {}, published |-> FALSE]
NotStarting == <<>>
SeedingInit ==
  /\ catalogued = [n \in Everything |-> NotThere]
  /\ starting = [s \in Servers |-> NotStarting]
  /\ starts = 0 /\ edits = 0 /\ discarded = {} /\ raced = FALSE

Has(db, n) == db[n].copies > 0
There(db, names) == {n \in names : Has(db, n)}
Made(db, n, parts, published) ==
  [db EXCEPT ![n] = [copies |-> @.copies + 1, parts |-> parts, published |-> published]]

-----------------------------------------------------------------------------
(* A fixture: sections in order of dependency, each cut short by its first *)
(* platform error.                                                         *)

\* Mutated: charts and boards are made without a look at what is there.
FoundUnlessDrawn(db, spec) == spec.kind \notin {"visualizations", "dashboards"} /\ Has(db, spec.name)

Found(db, spec) == Has(db, spec.name)

\* An application is brought up to what the fixture declares of it whenever it
\* is loaded; anything else that is there is left as it is, and what needs
\* something that is not there is skipped.
LoadSpec(loading, spec, bad) ==
  LET db == loading.db
      found == Found(db, spec)
      parts == There(db, spec.parts)
  IN IF \/ spec.kind \in loading.broken
        \/ found /\ spec.kind # "applications"
        \/ There(db, spec.needs) # spec.needs
     THEN loading
     ELSE IF spec.name \in bad THEN [loading EXCEPT !.broken = @ \cup {spec.kind}]
     ELSE [loading EXCEPT !.db =
             IF found THEN [db EXCEPT ![spec.name].parts = parts, ![spec.name].published = TRUE]
             ELSE Made(db, spec.name, parts, spec.kind = "applications")]

Load(db, fixture, bad) ==
  FoldLeft(LAMBDA loading, spec : LoadSpec(loading, spec, bad),
           [db |-> db, broken |-> {}], fixture).db

\* The code half: each chart and board is tried on its own.
BuildSpec(sofar, spec, bad) ==
  IF Has(sofar, spec.name) \/ There(sofar, spec.needs) # spec.needs \/ spec.name \in bad
  THEN sofar ELSE Made(sofar, spec.name, There(sofar, spec.parts), FALSE)

Build(db, built, bad) ==
  FoldLeft(LAMBDA sofar, spec : BuildSpec(sofar, spec, bad), db, built)

\* Mutated: the fixture is not loaded again after the code half.
SeedPluginOnce(db, c, bad) ==
  LET p == Contributions[c]
      filed == IF Has(db, p.project) THEN db ELSE Made(db, p.project, {}, FALSE)
  IN Build(Load(filed, p.fixture, bad), p.built, bad)

\* The second pass picks up what the code half built.
SeedPlugin(db, c, bad) ==
  LET p == Contributions[c]
      filed == IF Has(db, p.project) THEN db ELSE Made(db, p.project, {}, FALSE)
  IN Load(Build(Load(filed, p.fixture, bad), p.built, bad), p.fixture, bad)

-----------------------------------------------------------------------------
(* The walkthrough.                                                        *)

SeedSales(db) == IF Has(db, Core.sales) THEN db ELSE Made(db, Core.sales, {}, FALSE)

SeedModels(db, bad) ==
  [n \in Everything |-> IF n \in Core.models \ bad /\ ~Has(db, n)
                        THEN [NotThere EXCEPT !.copies = 1] ELSE db[n]]

\* The one chart stands for both and their board: nothing else is looked up.
SeedGoldenPath(db, bad) ==
  IF \/ ~Has(db, Core.sales) \/ ~Has(db, Core.revenue)
     \/ Has(db, Core.byProduct) \/ Core.byProduct \in bad
  THEN db
  ELSE Made(Made(Made(db, Core.byProduct, {}, FALSE), Core.overTime, {}, FALSE),
            Core.overview, {Core.byProduct, Core.overTime}, FALSE)

SeedApplications(db) ==
  IF ~Has(db, Core.app) /\ Has(db, Core.sales)
  THEN Made(db, Core.app, There(db, Core.models \cup {Core.sales, Core.overview}), TRUE)
  ELSE IF Has(db, Core.app) /\ Core.overview \notin db[Core.app].parts
  THEN [db EXCEPT ![Core.app].parts = @ \cup There(db, {Core.overview})]
  ELSE db

\* A step that fails leaves nothing of itself behind and costs no other.
SeedCore(db, bad, failing) ==
  LET stepped(sofar, step, result) == IF step \in failing THEN sofar ELSE result
      sold == stepped(db, "sales", SeedSales(db))
      modelled == stepped(sold, "models", SeedModels(sold, bad))
      shown == stepped(modelled, "golden path", SeedGoldenPath(modelled, bad))
  IN stepped(shown, "applications", SeedApplications(shown))

\* Mutated: one savepoint around all the plugins.
SeedTogether(db, bad, failing) ==
  IF \E c \in Plugins : Contributions[c].project \in failing THEN db
  ELSE FoldLeft(LAMBDA sofar, c : SeedPlugin(sofar, c, bad), db, [c \in Plugins |-> c])

Contribute(sofar, c, bad, failing) ==
  IF Contributions[c].project \in failing THEN sofar ELSE SeedPlugin(sofar, c, bad)

SeedContributions(db, bad, failing) ==
  FoldLeft(LAMBDA sofar, c : Contribute(sofar, c, bad, failing), db, [c \in Plugins |-> c])

-----------------------------------------------------------------------------
(* Starts.                                                                 *)

Seeded(db, bad, failing) == SeedContributions(SeedCore(db, bad, failing), bad, failing)

\* What a start sees is what was committed before it; `bad` is what the platform
\* refuses to make this time, `failing` the steps something else goes wrong in.
StartServer(s, bad, failing) ==
  /\ starting[s] = NotStarting /\ starts < MaxStarts
  /\ starts' = starts + 1
  /\ starting' = [starting EXCEPT ![s] = <<[catalogue |-> catalogued, bad |-> bad, failing |-> failing]>>]
  /\ raced' = (raced \/ \E other \in Servers : starting[other] # NotStarting)
  /\ UNCHANGED <<catalogued, edits, discarded>>

\* Only a project's name is unique: the later of two servers to make one waits
\* for the other's, and loses that plugin.
Lost(s) ==
  LET before == starting[s][1].catalogue IN
  {c \in Plugins : Has(catalogued, Contributions[c].project) /\ ~Has(before, Contributions[c].project)}

Commit(s) ==
  /\ starting[s] # NotStarting
  /\ LET start == starting[s][1]
         before == start.catalogue
         after == Seeded(before, start.bad,
                         start.failing \cup {Contributions[c].project : c \in Lost(s)})
     IN catalogued' = [n \in Everything |->
          IF after[n] = before[n] THEN catalogued[n]
          ELSE [after[n] EXCEPT !.copies = catalogued[n].copies + @ - before[n].copies]]
  /\ starting' = [starting EXCEPT ![s] = NotStarting]
  /\ UNCHANGED <<starts, edits, discarded, raced>>

\* A server that dies on the way leaves nothing.
Die(s) ==
  /\ starting[s] # NotStarting
  /\ starting' = [starting EXCEPT ![s] = NotStarting]
  /\ UNCHANGED <<catalogued, starts, edits, discarded, raced>>

-----------------------------------------------------------------------------
(* What people do with it.                                                 *)

Edit(n, row) ==
  /\ edits < MaxEdits /\ Has(catalogued, n) /\ row # catalogued[n]
  /\ edits' = edits + 1
  /\ catalogued' = [catalogued EXCEPT ![n] = row]
  /\ UNCHANGED <<starting, starts, raced>>

Applications == {Core.app} \cup
  {spec.name : spec \in {t \in UNION {SpecsOf(c) : c \in Plugins} : t.kind = "applications"}}

Discard(n) ==
  /\ n \notin Projects
  /\ Edit(n, [catalogued[n] EXCEPT !.copies = @ - 1])
  /\ discarded' = discarded \cup {n}
EditApplication(n) == Edit(n, [catalogued[n] EXCEPT !.parts = {}]) /\ UNCHANGED discarded
Unpublish(n) == Edit(n, [catalogued[n] EXCEPT !.published = FALSE]) /\ UNCHANGED discarded

SeedingNext ==
  \/ \E s \in Servers, bad \in {{}} \cup {{n} : n \in Refusable} : StartServer(s, bad, {})
  \/ \E s \in Servers, step \in Fragile : StartServer(s, {}, {step})
  \/ \E s \in Servers : Commit(s) \/ Die(s)
  \/ \E n \in Everything : Discard(n)
  \/ \E n \in Applications : EditApplication(n) \/ Unpublish(n)

SeedingSpec == SeedingInit /\ [][SeedingNext]_seedVars

SeedingTypeOK ==
  /\ \A n \in Everything : catalogued[n].copies \in 0 .. MaxStarts /\ catalogued[n].parts \subseteq Everything
  /\ starts \in 0 .. MaxStarts /\ edits \in 0 .. MaxEdits /\ raced \in BOOLEAN

-----------------------------------------------------------------------------
(* Properties.                                                             *)

\* "Running this on an already-seeded database is a no-op": however often the
\* platform starts, and whatever failed or was deleted on the way, there is one
\* of everything (seed.py:3, fixtures.py:13).  Two exceptions: servers that
\* started together, and what follows the walkthrough's first chart once
\* somebody has deleted that chart.
SeedsOnce ==
  \A n \in Everything :
    \/ catalogued[n].copies <= 1
    \/ raced
    \/ n \in Unchecked /\ Core.byProduct \in discarded

Whole(db, c) ==
  \A spec \in SpecsOf(c) :
    /\ Has(db, spec.name)
    /\ spec.kind = "applications" => db[spec.name].published /\ db[spec.name].parts = spec.parts

\* A plugin in which nothing failed is in place once a start is over, every
\* application published and holding all that is declared of it, whatever went
\* wrong elsewhere in that start and in whatever state it was left before
\* (fixtures.py:233, seed.py:404).
SeedingHeals ==
  [][\A s \in Servers :
       (Commit(s) /\ starting[s][1].catalogue = catalogued) =>
         \A c \in Plugins :
           (/\ Contributions[c].project \notin starting[s][1].failing
            /\ starting[s][1].bad \cap PluginNames(c) = {}) => Whole(catalogued', c)]_seedVars
=============================================================================
