------------------------------ MODULE Catalogue ------------------------------
(***************************************************************************)
(* What the platform keeps of its data: sources, datasets and their        *)
(* versions, models, pipelines, executions, results, charts and            *)
(* dashboards.  Rows name each other by id and most of those names are     *)
(* plain columns, so a deletion leaves them behind (data, results and      *)
(* analysis application services).                                         *)
(***************************************************************************)
EXTENDS FiniteSets, Integers

CONSTANTS Capacity,      \* how many rows of each kind are ever made
          MaxDeletions   \* how many rows are deleted

VARIABLES rows,        \* every row ever made, by its id
          objects,     \* the rows whose Parquet file is in the object store
          deletions,
          flowed       \* the pairs of rows of which the first fed the second

catalogueVars == <<rows, objects, deletions, flowed>>

Kinds == {"source", "dataset", "dataset_version", "model", "pipeline", "execution",
          "result", "visualization", "dashboard"}

ASSUME CatalogueAssumption ==
  /\ MaxDeletions \in Nat /\ Capacity \in [Kinds -> Nat]
  /\ Capacity["source"] > 0 /\ Capacity["model"] > 0

\* What a row may name.
RowColumns == {"source", "dataset", "version", "model", "pipeline", "execution", "result"}

\* The n-th row of its kind.
Id(kind, n) == <<kind, n>>
None == Id("none", 0)
Ids == DOMAIN rows
AllIds == UNION {{Id(kind, n) : n \in 1..Capacity[kind]} : kind \in Kinds}

Unnamed == [column \in RowColumns |-> None]
NewRow(names) == [live |-> TRUE, names |-> names, tiles |-> {}]

Kind(i) == i[1]
Kept(kind) == {i \in Ids : Kind(i) = kind /\ rows[i].live}
Fresh(kind) == Id(kind, Cardinality({i \in Ids : Kind(i) = kind}) + 1)
Room(kind) == Fresh(kind)[2] <= Capacity[kind]
Named(i, column) == {rows[i].names[column]} \ {None}
Naming(kind, column, i) == {j \in Kept(kind) : rows[j].names[column] = i}

CatalogueTypeOK ==
  /\ Ids \subseteq AllIds
  /\ \A i \in Ids : /\ rows[i].live \in BOOLEAN
                    /\ rows[i].names \in [RowColumns -> Ids \cup {None}]
                    /\ rows[i].tiles \subseteq Ids
  /\ objects \subseteq Ids
  /\ deletions \in 0..MaxDeletions
  /\ flowed \subseteq Ids \X Ids

\* A source and a model are registered.
CatalogueInit ==
  /\ rows = [i \in {Id("source", 1), Id("model", 1)} |-> NewRow(Unnamed)]
  /\ objects = {}
  /\ deletions = 0
  /\ flowed = {}

\* One more row beside those that are kept.
With(kept, i, row) == [j \in DOMAIN kept \cup {i} |-> IF j = i THEN row ELSE kept[j]]

\* These rows are gone; nothing else changes but what is said with it.
Without(gone) == [i \in Ids |-> [rows[i] EXCEPT !.live = @ /\ i \notin gone]]
OneMoreDeletion == deletions < MaxDeletions /\ deletions' = deletions + 1

-----------------------------------------------------------------------------
(* Datasets and their versions.                                            *)

\* A table stored as the next version of a dataset, the current one from then
\* on, in the rows there are.
Materialised(kept, dataset, names) ==
  With([kept EXCEPT ![dataset].names.version = Fresh("dataset_version")],
       Fresh("dataset_version"), NewRow([names EXCEPT !.dataset = dataset]))

\* As the first version of a dataset of its own.
Established(kept, source, names) ==
  Materialised(With(kept, Fresh("dataset"), NewRow([Unnamed EXCEPT !.source = source])),
               Fresh("dataset"), names)

CreateFromSource(s) ==
  /\ s \in Kept("source") /\ Room("dataset") /\ Room("dataset_version")
  /\ rows' = Established(rows, s, [Unnamed EXCEPT !.source = s])
  /\ objects' = objects \cup {Fresh("dataset_version")}
  /\ flowed' = flowed \cup {<<s, Fresh("dataset_version")>>,
                            <<Fresh("dataset_version"), Fresh("dataset")>>}
  /\ UNCHANGED deletions

\* The origin is read again, if the dataset still names one.
RefreshDataset(d) ==
  /\ d \in Kept("dataset") /\ Room("dataset_version")
  /\ \E s \in Named(d, "source") \cap Kept("source") :
       /\ rows' = Materialised(rows, d, [Unnamed EXCEPT !.source = s])
       /\ flowed' = flowed \cup {<<s, Fresh("dataset_version")>>,
                                 <<Fresh("dataset_version"), d>>}
  /\ objects' = objects \cup {Fresh("dataset_version")}
  /\ UNCHANGED deletions

\* The foreign key of a dataset to its source is nulled; a version's lineage
\* is a document and goes on naming the source.
DeleteSource(s) ==
  /\ s \in Kept("source") /\ OneMoreDeletion
  /\ rows' = [i \in Ids |->
       IF Kind(i) = "dataset" /\ rows[i].names.source = s
       THEN [rows[i] EXCEPT !.names.source = None] ELSE Without({s})[i]]
  /\ UNCHANGED <<objects, flowed>>

\* The versions go with their dataset, and their files.
DeleteDataset(d) ==
  /\ d \in Kept("dataset") /\ OneMoreDeletion
  /\ LET gone == Naming("dataset_version", "dataset", d) IN
       rows' = Without(gone \cup {d}) /\ objects' = objects \ gone
  /\ UNCHANGED flowed

-----------------------------------------------------------------------------
(* Pipelines, executions and results.                                      *)

DefinePipeline(d) ==
  /\ Room("pipeline")
  /\ rows' = With(rows, Fresh("pipeline"), NewRow([Unnamed EXCEPT !.dataset = d]))
  /\ UNCHANGED <<objects, deletions, flowed>>

\* One execution, of a model on a version or of a pipeline's step on the table
\* before it, and what it leaves: nothing when it fails, a result that keeps a
\* checkpoint, or a result that is a dataset.
Execute(m, v, p, leaves) ==
  /\ Room("execution")
  /\ LET e == Fresh("execution")
         r == Fresh("result")
         names == [Unnamed EXCEPT !.model = m, !.version = v, !.pipeline = p]
         ended == With(rows, e, NewRow([names EXCEPT !.result = r]))
         kept == [Unnamed EXCEPT !.execution = e]
         named == [kept EXCEPT !.dataset = Fresh("dataset"),
                               !.version = Fresh("dataset_version")]
         fed == flowed \cup ({m, v, p} \ {None}) \X {e}
     IN \/ /\ leaves = "nothing"
           /\ rows' = With(rows, e, NewRow(names))
           /\ flowed' = fed /\ UNCHANGED objects
        \/ /\ leaves = "checkpoint" /\ Room("result")
           /\ rows' = With(ended, r, NewRow(kept))
           /\ objects' = objects \cup {r}
           /\ flowed' = fed \cup {<<e, r>>}
        \/ /\ leaves = "dataset"
           /\ Room("result") /\ Room("dataset") /\ Room("dataset_version")
           /\ rows' = Established(With(ended, r, NewRow(named)), None, kept)
           /\ objects' = objects \cup {Fresh("dataset_version")}
           /\ flowed' = fed \cup {<<e, r>>, <<r, Fresh("dataset_version")>>,
                                  <<Fresh("dataset_version"), Fresh("dataset")>>}
  /\ UNCHANGED deletions

\* A checkpoint becomes a dataset, once: a result that names a version is
\* "already materialised", whatever became of the version.
MaterialiseResult(r) ==
  /\ r \in Kept("result") \cap objects /\ rows[r].names.version = None
  /\ Room("dataset") /\ Room("dataset_version")
  /\ rows' = Established(
       [rows EXCEPT ![r].names.dataset = Fresh("dataset"),
                    ![r].names.version = Fresh("dataset_version")],
       None, [Unnamed EXCEPT !.result = r, !.execution = rows[r].names.execution])
  /\ objects' = objects \cup {Fresh("dataset_version")}
  /\ flowed' = flowed \cup {<<r, Fresh("dataset_version")>>,
                            <<Fresh("dataset_version"), Fresh("dataset")>>}
  /\ UNCHANGED deletions

\* The row and its checkpoint; what it was materialised as stays.
DeleteResult(r) ==
  /\ r \in Kept("result") /\ OneMoreDeletion
  /\ rows' = Without({r}) /\ objects' = objects \ {r}
  /\ UNCHANGED flowed

\* Models, pipelines and charts go without a look at who names them.
DeleteNamed(i) ==
  /\ i \in Kept("model") \cup Kept("pipeline") \cup Kept("visualization")
  /\ OneMoreDeletion /\ rows' = Without({i})
  /\ UNCHANGED <<objects, flowed>>

-----------------------------------------------------------------------------
(* Charts and dashboards.                                                  *)

\* The version a chart is bound to: one there is, the current one of a dataset,
\* or the one a result names, which may be gone.
ResolvedVersion(i) == IF Kind(i) = "dataset_version" THEN i ELSE rows[i].names.version

CreateVisualization(i) ==
  /\ i \in Kept("dataset_version") \cup Kept("dataset") \cup Kept("result")
  /\ ResolvedVersion(i) # None /\ Room("visualization")
  /\ LET bound == [Unnamed EXCEPT !.version = ResolvedVersion(i),
                                  !.dataset = IF Kind(i) = "dataset" THEN i ELSE None,
                                  !.result = IF Kind(i) = "result" THEN i ELSE None]
     IN rows' = With(rows, Fresh("visualization"), NewRow(bound))
  /\ flowed' = flowed \cup {<<ResolvedVersion(i), Fresh("visualization")>>}
  /\ UNCHANGED <<objects, deletions>>

\* A dashboard with the charts it is made with.
CreateDashboard(charts) ==
  /\ charts \subseteq Kept("visualization") /\ Room("dashboard")
  /\ rows' = With(rows, Fresh("dashboard"), [NewRow(Unnamed) EXCEPT !.tiles = charts])
  /\ flowed' = flowed \cup charts \X {Fresh("dashboard")}
  /\ UNCHANGED <<objects, deletions>>

AddTile(b, c) ==
  /\ b \in Kept("dashboard") /\ c \in Kept("visualization") \ rows[b].tiles
  /\ rows' = [rows EXCEPT ![b].tiles = @ \cup {c}]
  /\ flowed' = flowed \cup {<<c, b>>}
  /\ UNCHANGED <<objects, deletions>>

RemoveTile(b, c) ==
  /\ b \in Kept("dashboard") /\ c \in rows[b].tiles
  /\ rows' = [rows EXCEPT ![b].tiles = @ \ {c}]
  /\ flowed' = flowed \ {<<c, b>>}
  /\ UNCHANGED <<objects, deletions>>

CatalogueNext ==
  \/ \E i \in Ids : \/ CreateFromSource(i) \/ RefreshDataset(i) \/ DeleteSource(i)
                    \/ DeleteDataset(i) \/ MaterialiseResult(i) \/ DeleteResult(i)
                    \/ DeleteNamed(i) \/ CreateVisualization(i)
  \/ \E d \in Kept("dataset") \cup {None} : DefinePipeline(d)
  \/ \E leaves \in {"nothing", "checkpoint", "dataset"} :
       \/ \E m \in Kept("model"), v \in Kept("dataset_version") : Execute(m, v, None, leaves)
       \/ \E p \in Kept("pipeline") : Execute(None, None, p, leaves)
  \/ \E charts \in SUBSET Kept("visualization") : CreateDashboard(charts)
  \/ \E b \in Kept("dashboard") : \/ \E c \in Kept("visualization") : AddTile(b, c)
                                 \/ \E c \in rows[b].tiles : RemoveTile(b, c)

CatalogueSpec == CatalogueInit /\ [][CatalogueNext]_catalogueVars

-----------------------------------------------------------------------------
\* What is on record can be read, so that a trace ends at data: a version has
\* its file, the current version of a dataset is its last one, and a result that
\* was never materialised has its checkpoint.
RecordsReadable ==
  /\ Kept("dataset_version") \subseteq objects
  /\ \A d \in Kept("dataset") :
       /\ rows[d].names.version \in Kept("dataset_version")
       /\ \A v \in Naming("dataset_version", "dataset", d) : v[2] <= rows[d].names.version[2]
  /\ \A r \in Kept("result") : rows[r].names.version = None => r \in objects
=============================================================================
