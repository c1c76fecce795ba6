----------------------------- MODULE Migrations -----------------------------
(***************************************************************************)
(* The chain of schema migrations on PostgreSQL, and the ORM rows the      *)
(* program reads and writes with.  A schema is a set of facts              *)
(* <<table, kind, column>>; a migration takes facts away and adds some,    *)
(* and fails when it takes what is not there, adds what is, or demands of  *)
(* the rows what they do not fulfil.  Column types and defaults are left   *)
(* out.  A database is walked up and down the chain in any order; `rows`   *)
(* is what its rows are like as far as a migration may refuse them.        *)
(***************************************************************************)
EXTENDS Integers, Sequences

VARIABLES revision,    \* how many migrations have been applied
          schema,      \* the facts
          rows

migrationVars == <<revision, schema, rows>>

-----------------------------------------------------------------------------
(* Facts.                                                                  *)

Kinds == {"column", "required", "index", "unique", "reference"}
Facts(t, kind, columns) == {<<t, kind, c>> : c \in columns}

Indexed(t, columns) == Facts(t, "index", columns)
Unique(t, columns) == Facts(t, "unique", columns)
References(t, columns) == Facts(t, "reference", columns)
Optional(t, columns) == Facts(t, "column", columns)
Required(t, columns) == Facts(t, "column", columns) \cup Facts(t, "required", columns)

\* Every table has an id and the time of creation.
Table(t, required, optional) ==
  Required(t, required \cup {"id", "created_at"}) \cup Optional(t, optional)

Tables(s) == {f[1] : f \in s}
Has(s, t, c) == <<t, "column", c>> \in s

\* What goes with a table, and with a column.
WholeTable(s, t) == {<<t, "column", "id">>} \cup {f \in s : f[1] = t}
WholeColumn(s, t, c) == {<<t, "column", c>>} \cup {f \in s : f[1] = t /\ f[3] = c}

Change(gone, new) == [gone |-> gone, new |-> new]
Added(new) == Change({}, new)
Removed(gone) == Change(gone, {})
Renaming(s, t, old, new) ==
  Change(WholeColumn(s, t, old), {<<t, f[2], new>> : f \in WholeColumn(s, t, old)})

\* Two changes one after the other, of different facts.
Also(x, y) == Change(x.gone \cup y.gone, x.new \cup y.new)

Applies(change, s) ==
  /\ change.gone \subseteq s
  /\ change.new \cap (s \ change.gone) = {}
  /\ \A f \in change.new :
       <<f[1], "column", "id">> \in (s \ change.gone) \cup change.new

After(change, s) == (s \ change.gone) \cup change.new

-----------------------------------------------------------------------------
(* What the ORM declares.                                                  *)

Titled == {"name", "description", "updated_at"}
Owned(t) == Optional(t, {"workspace_id", "created_by"}) \cup Indexed(t, {"workspace_id"})
Filed(t) == Optional(t, {"project_id"}) \cup Indexed(t, {"project_id"})

VisualizationRow ==
  Table("visualizations", Titled \cup {"spec"},
        {"dataset_id", "dataset_version_id", "result_id"})
  \cup Owned("visualizations") \cup Filed("visualizations")

DashboardRow ==
  Table("dashboards", Titled \cup {"tiles"}, {})
  \cup Indexed("dashboards", {"name"}) \cup Owned("dashboards") \cup Filed("dashboards")

ApplicationRow ==
  Table("applications",
        Titled \cup {"slug", "kind", "status", "model_ids", "dataset_ids",
                     "dashboard_ids", "configuration", "visibility"},
        {"entrypoint", "share_token", "shared_at"})
  \cup Indexed("applications", {"name", "slug", "share_token"})
  \cup Unique("applications", {"share_token"}) \cup Owned("applications")

SourceRow ==
  Table("sources", Titled \cup {"type", "connection"}, {})
  \cup Indexed("sources", {"name"}) \cup Owned("sources") \cup Filed("sources")

SchemaRow ==
  Table("data_schemas", {"name", "description", "fields"}, {}) \cup Owned("data_schemas")

DatasetRow ==
  Table("datasets", Titled \cup {"origin", "tags"}, {"source_id", "current_version_id"})
  \cup Indexed("datasets", {"name"}) \cup References("datasets", {"source_id"})
  \cup Owned("datasets") \cup Filed("datasets")

DatasetVersionRow ==
  Table("dataset_versions",
        {"dataset_id", "version", "storage_uri", "row_count", "column_count", "lineage"},
        {"schema_id"})
  \cup Unique("dataset_versions", {"uq_dataset_version"})
  \cup References("dataset_versions", {"dataset_id", "schema_id"})

ExperimentRow ==
  Table("experiments",
        Titled \cup {"objective", "primary_direction", "primary_metric", "trials",
                     "execution_ids", "meta"},
        {"dataset_version_id"})
  \cup Indexed("experiments", {"name"}) \cup Owned("experiments") \cup Filed("experiments")

EvaluationRow ==
  Table("evaluations", {"execution_id", "metrics", "target", "notes"},
        {"model_id", "experiment_id", "passed"})
  \cup Owned("evaluations") \cup Filed("evaluations")

ExecutionRow ==
  Table("executions",
        {"target_type", "kind", "input_payload", "parameters", "context", "runtime",
         "status", "logs", "metrics", "lineage", "cancel_requested", "attempts"},
        {"target_id", "model_version_id", "dataset_version_id", "result_id",
         "produced_model_version_id", "experiment_id", "error", "definition_snapshot",
         "heartbeat_at", "started_at", "finished_at"})
  \cup Indexed("executions", {"target_type", "target_id"})
  \cup Owned("executions") \cup Filed("executions")

JobsRow ==
  Table("jobs",
        {"kind", "target_id", "parameters", "status", "outcome", "attempts",
         "cancel_requested", "updated_at"},
        {"error", "heartbeat_at", "requested_by", "started_at", "finished_at"})
  \cup Indexed("jobs", {"kind", "target_id", "status"}) \cup Owned("jobs")

ModelRow ==
  Table("models",
        Titled \cup {"slug", "type", "provider", "runtime", "status", "input_contract",
                     "parameter_contract", "output_contract", "configuration", "meta",
                     "lineage", "tags"},
        {"current_version_id"})
  \cup Indexed("models", {"name", "slug", "status"}) \cup Owned("models") \cup Filed("models")

ModelVersionRow ==
  Table("model_versions",
        {"model_id", "version", "definition_snapshot", "parameters", "metrics", "notes"},
        {"artifact_uri", "created_by_execution_id"})
  \cup Unique("model_versions", {"uq_model_version"})
  \cup References("model_versions", {"model_id"})

PipelineRow ==
  Table("pipelines", Titled \cup {"input_dataset_id", "steps", "status", "tags"},
        {"last_run_id", "last_run_status"})
  \cup Indexed("pipelines", {"name"}) \cup Owned("pipelines") \cup Filed("pipelines")

PipelineRunRow ==
  Table("pipeline_runs",
        {"pipeline_id", "status", "definition_snapshot", "step_runs", "output_dataset_ids"},
        {"input_dataset_version_id", "execution_id", "error", "triggered_by",
         "started_at", "finished_at"})
  \cup Indexed("pipeline_runs", {"pipeline_id"})
  \cup References("pipeline_runs", {"pipeline_id"})

ScheduleRow ==
  Table("schedules",
        Titled \cup {"target_id", "target_type", "kind", "input_payload", "parameters",
                     "status", "run_count", "failure_count"},
        {"interval_seconds", "cron", "dataset_id", "dataset_version_id", "last_run_at",
         "last_execution_id", "last_status", "last_error", "next_run_at"})
  \cup Indexed("schedules", {"name", "next_run_at"}) \cup Owned("schedules")

ApiKeyRow ==
  Table("api_keys", {"name", "workspace_id", "key_hash", "hint", "can_write"},
        {"created_by", "last_used_at", "expires_at", "revoked_at"})
  \cup Indexed("api_keys", {"workspace_id", "key_hash"}) \cup Unique("api_keys", {"key_hash"})

UserRow ==
  Table("users",
        {"email", "password_hash", "role", "display_name", "is_active", "updated_at"},
        {"last_login_at"})
  \cup Indexed("users", {"email"}) \cup Unique("users", {"email"})

AuditRow ==
  Table("audit_entries", {"action", "resource_type", "detail", "outcome"},
        {"resource_id", "actor_id", "actor_email"})
  \cup Indexed("audit_entries", {"action", "resource_type", "actor_id"})

ProjectRow ==
  Table("projects",
        Titled \cup {"workspace_id", "slug", "directory", "is_default"}, {"created_by"})
  \cup Indexed("projects", {"workspace_id"})
  \cup Unique("projects", {"uq_project_name", "uq_project_slug", "uq_project_directory"})

WorkspaceRow ==
  Table("workspaces", Titled \cup {"slug", "is_default"}, {"created_by"})
  \cup Unique("workspaces", {"name", "slug"})

WorkspaceMemberRow ==
  Table("workspace_members", {"workspace_id", "user_id", "role"}, {})
  \cup Indexed("workspace_members", {"workspace_id", "user_id"})
  \cup Unique("workspace_members", {"uq_member"})

ReportRow ==
  Table("reports", Titled \cup {"sections", "status", "tags"},
        {"last_export_uri", "last_export_format", "last_exported_at"})
  \cup Indexed("reports", {"name"}) \cup Owned("reports")

ResultRow ==
  Table("results", {"execution_id", "kind", "summary", "metrics"},
        {"inline_payload", "payload_uri", "artifact_uri", "dataset_id",
         "dataset_version_id", "row_count"})
  \cup Indexed("results", {"execution_id"}) \cup Owned("results") \cup Filed("results")

\* import_all_orm_models.
Metadata ==
  VisualizationRow \cup DashboardRow \cup ApplicationRow \cup SourceRow \cup SchemaRow
  \cup DatasetRow \cup DatasetVersionRow \cup ExperimentRow \cup EvaluationRow
  \cup ExecutionRow \cup JobsRow \cup ModelRow \cup ModelVersionRow \cup PipelineRow
  \cup PipelineRunRow \cup ScheduleRow \cup ApiKeyRow \cup UserRow \cup AuditRow
  \cup ProjectRow \cup WorkspaceRow \cup WorkspaceMemberRow \cup ReportRow \cup ResultRow

-----------------------------------------------------------------------------
(* The migrations, oldest first; each with what its upgrade and its        *)
(* downgrade change in a schema s.                                         *)

DropTables(s, ts) == Removed(UNION {WholeTable(s, t) : t \in ts})
DropColumn(s, t, c) == Removed(WholeColumn(s, t, c))

InitialTables ==
  { "applications", "dashboards", "data_schemas", "evaluations", "experiments", "models",
    "results", "sources", "visualizations", "datasets", "deployments", "executions",
    "model_versions", "dataset_versions" }

\* Tables that reference none.
InitialRoots ==
  Table("applications", Titled \cup {"slug", "kind", "status", "model_ids", "dataset_ids",
                                     "dashboard_ids", "configuration"}, {"entrypoint"})
  \cup Unique("applications", {"name", "slug"})
  \cup Table("dashboards", Titled \cup {"tiles"}, {}) \cup Unique("dashboards", {"name"})
  \cup Table("data_schemas", {"name", "description", "fields"}, {})
  \cup Table("evaluations", {"execution_id", "metrics", "target", "notes"},
             {"model_id", "experiment_id", "passed"})
  \cup Table("experiments", Titled \cup {"objective", "primary_metric", "model_ids",
                                         "execution_ids", "meta"}, {})
  \cup Unique("experiments", {"name"})
  \cup Table("models", Titled \cup {"slug", "type", "provider", "runtime", "input_contract",
                                    "parameter_contract", "output_contract",
                                    "configuration", "meta", "lineage", "tags"},
             {"current_version_id"})
  \cup Unique("models", {"name", "slug"})
  \cup Table("results", {"execution_id", "kind", "summary", "metrics"},
             {"inline_payload", "payload_uri", "artifact_uri", "dataset_id",
              "dataset_version_id", "row_count"})
  \cup Indexed("results", {"execution_id"})
  \cup Table("sources", Titled \cup {"type", "connection"}, {}) \cup Unique("sources", {"name"})
  \cup Table("visualizations", Titled \cup {"spec"},
             {"dataset_id", "dataset_version_id", "result_id"})

InitialChildren ==
  Table("datasets", Titled \cup {"origin", "tags"}, {"source_id", "current_version_id"})
  \cup References("datasets", {"source_id"}) \cup Unique("datasets", {"name"})
  \cup Table("deployments", {"application_id", "environment", "version", "status",
                             "configuration", "notes", "updated_at"}, {"endpoint"})
  \cup References("deployments", {"application_id"})
  \cup Table("executions", {"model_id", "kind", "input_payload", "parameters", "context",
                            "runtime", "status", "logs", "metrics", "lineage"},
             {"model_version_id", "dataset_version_id", "result_id",
              "produced_model_version_id", "experiment_id", "error", "started_at",
              "finished_at"})
  \cup References("executions", {"model_id"})
  \cup Table("model_versions", {"model_id", "version", "definition_snapshot", "parameters",
                                "metrics", "notes"},
             {"artifact_uri", "created_by_execution_id"})
  \cup References("model_versions", {"model_id"})
  \cup Unique("model_versions", {"uq_model_version"})
  \cup Table("dataset_versions", {"dataset_id", "version", "storage_uri", "row_count",
                                  "column_count", "lineage"}, {"schema_id"})
  \cup References("dataset_versions", {"dataset_id", "schema_id"})
  \cup Unique("dataset_versions", {"uq_dataset_version"})

InitialUp == Added(InitialRoots \cup InitialChildren)
InitialDown(s) == DropTables(s, InitialTables)

OperationsUp == Added(
  Table("audit_entries", {"action", "resource_type", "detail", "outcome"},
        {"resource_id", "actor_id", "actor_email"})
  \cup Indexed("audit_entries", {"action", "actor_id", "resource_type"})
  \cup Table("pipelines", Titled \cup {"input_dataset_id", "steps", "status", "tags"},
             {"last_run_id", "last_run_status"})
  \cup Unique("pipelines", {"name"})
  \cup Table("reports", Titled \cup {"sections", "status", "tags"},
             {"last_export_uri", "last_export_format", "last_exported_at"})
  \cup Unique("reports", {"name"})
  \cup Table("schedules", Titled \cup {"model_id", "kind", "input_payload", "parameters",
                                       "status", "run_count", "failure_count"},
             {"interval_seconds", "cron", "dataset_id", "dataset_version_id", "last_run_at",
              "last_execution_id", "last_status", "last_error", "next_run_at", "created_by"})
  \cup Unique("schedules", {"name"}) \cup Indexed("schedules", {"next_run_at"})
  \cup Table("users", {"email", "password_hash", "role", "display_name", "is_active",
                       "updated_at"}, {"last_login_at"})
  \cup Indexed("users", {"email"}) \cup Unique("users", {"email"})
  \cup Table("pipeline_runs", {"pipeline_id", "status", "step_runs", "output_dataset_ids"},
             {"input_dataset_version_id", "error", "triggered_by", "started_at",
              "finished_at"})
  \cup References("pipeline_runs", {"pipeline_id"}) \cup Indexed("pipeline_runs", {"pipeline_id"}))

OperationsDown(s) ==
  DropTables(s, {"pipeline_runs", "users", "schedules", "reports", "pipelines",
                 "audit_entries"})

ModelScopeUp == Added(Required("models", {"scope"}) \cup Indexed("models", {"scope"}))
ModelScopeDown(s) ==
  Also(Removed(Indexed("models", {"scope"})), DropColumn(s, "models", "scope"))

\* Only the origin of datasets changes.
DemoteUp == Added({})
DemoteDown == Added({})

ModelStatusUp == Added(Required("models", {"status"}) \cup Indexed("models", {"status"}))
ModelStatusDown(s) ==
  Also(Removed(Indexed("models", {"status"})), DropColumn(s, "models", "status"))

TrialsUp(s) ==
  Also(Added(Optional("experiments", {"dataset_version_id"})
             \cup Required("experiments", {"trials"})),
       DropColumn(s, "experiments", "model_ids"))
\* The old column comes back without its NOT NULL.
TrialsDown(s) ==
  Also(Added(Optional("experiments", {"model_ids"})),
       Also(DropColumn(s, "experiments", "trials"),
            DropColumn(s, "experiments", "dataset_version_id")))

\* The table may already be gone; it comes back without its foreign key.
DeploymentsUp(s) ==
  IF "deployments" \in Tables(s) THEN DropTables(s, {"deployments"}) ELSE Added({})
DeploymentsDown == Added(
  Table("deployments", {"application_id", "environment", "version", "status", "updated_at"},
        {"endpoint", "configuration", "notes"}))

HeartbeatUp == Added(Required("executions", {"cancel_requested"})
                     \cup Optional("executions", {"heartbeat_at"}))
HeartbeatDown(s) == Also(DropColumn(s, "executions", "heartbeat_at"),
                         DropColumn(s, "executions", "cancel_requested"))

JobsUp == Added(
  Table("jobs", {"kind", "target_id", "status", "attempts", "cancel_requested", "updated_at"},
        {"parameters", "outcome", "error", "heartbeat_at", "requested_by", "started_at",
         "finished_at"})
  \cup Indexed("jobs", {"kind", "target_id", "status"}))
JobsDown(s) == DropTables(s, {"jobs"})

InlineStepsUp(s) ==
  Also(Change(Facts("executions", "required", {"model_id"}),
              Optional("executions", {"definition_snapshot"})),
       Also(Removed(Indexed("models", {"scope"})), DropColumn(s, "models", "scope")))

\* Mutated: the index is not put back.
InlineStepsDownBare(s) ==
  Also(Added(Required("models", {"scope"}) \cup Facts("executions", "required", {"model_id"})),
       DropColumn(s, "executions", "definition_snapshot"))

InlineStepsDown(s) ==
  Also(Added(Required("models", {"scope"}) \cup Indexed("models", {"scope"})
             \cup Facts("executions", "required", {"model_id"})),
       DropColumn(s, "executions", "definition_snapshot"))

\* OWNED and UNIQUE_COLUMNS.
OWNED == {"sources", "data_schemas", "datasets", "models", "experiments", "evaluations",
          "executions", "results", "reports", "visualizations", "dashboards",
          "applications", "pipelines", "schedules", "jobs"}
UNIQUE_COLUMNS ==
  {<<t, "name">> : t \in {"sources", "datasets", "models", "experiments", "reports",
                          "dashboards", "applications", "pipelines", "schedules"}}
  \cup {<<"models", "slug">>, <<"applications", "slug">>}
AsFacts(pairs, kind) == {<<x[1], kind, x[2]>> : x \in pairs}

WorkspaceTables ==
  Table("workspaces", {"name", "slug", "is_default", "updated_at"}, {"description", "created_by"})
  \cup Unique("workspaces", {"name", "slug"})
  \cup Table("workspace_members", {"workspace_id", "user_id", "role"}, {})
  \cup Unique("workspace_members", {"uq_member"})
  \cup Indexed("workspace_members", {"workspace_id", "user_id"})

\* `created_by` only where it is missing; whatever global constraint is found
\* gives way to an index.
WorkspacesUp(s) ==
  LET owned == OWNED \cap Tables(s)
      named == {x \in UNIQUE_COLUMNS : x[1] \in Tables(s)}
  IN  Also(Change(AsFacts(named, "unique") \cap s,
                  WorkspaceTables \cup AsFacts(named, "index")),
           Added(UNION {Owned(t) : t \in owned} \ {<<t, "column", "created_by">> :
                          t \in {u \in owned : Has(s, u, "created_by")}}))

WorkspacesDown(s) ==
  LET owned == OWNED \cap Tables(s)
      named == {x \in UNIQUE_COLUMNS : x[1] \in Tables(s)}
      leaving == UNION {WholeColumn(s, t, "created_by") \cup WholeColumn(s, t, "workspace_id")
                          \cup Indexed(t, {"workspace_id"}) : t \in owned}
  IN  Also(Change(AsFacts(named, "index"), AsFacts(named, "unique")),
           Also(Removed(leaving), DropTables(s, {"workspace_members", "workspaces"})))

AttemptsUp == Added(Required("executions", {"attempts"}))
AttemptsDown(s) == DropColumn(s, "executions", "attempts")

ApiKeysUp == Added(
  Table("api_keys", {"name", "workspace_id", "key_hash", "can_write"},
        {"hint", "created_by", "last_used_at", "expires_at", "revoked_at"})
  \cup Unique("api_keys", {"key_hash"}) \cup Indexed("api_keys", {"workspace_id", "key_hash"}))
ApiKeysDown(s) == DropTables(s, {"api_keys"})

SharingUp == Added(
  Required("applications", {"visibility"}) \cup Optional("applications", {"share_token", "shared_at"})
  \cup Indexed("applications", {"share_token"}) \cup Unique("applications", {"share_token"}))
SharingDown(s) ==
  Also(DropColumn(s, "applications", "shared_at"),
       Also(DropColumn(s, "applications", "share_token"),
            DropColumn(s, "applications", "visibility")))

ScheduleTargetsUp(s) ==
  Also(Renaming(s, "schedules", "model_id", "target_id"),
       Added(Required("schedules", {"target_type"})
             \cup Required("pipeline_runs", {"definition_snapshot"})))
ScheduleTargetsDown(s) ==
  Also(Renaming(s, "schedules", "target_id", "model_id"),
       Also(DropColumn(s, "schedules", "target_type"),
            DropColumn(s, "pipeline_runs", "definition_snapshot")))

DirectionUp == Added(Required("experiments", {"primary_direction"}))
DirectionDown(s) == DropColumn(s, "experiments", "primary_direction")

\* The foreign key follows the renamed column.
ExecutionTargetsUp(s) ==
  Also(Renaming(s, "executions", "model_id", "target_id"),
       Added(Required("executions", {"target_type"}) \cup Indexed("executions", {"target_type"})
             \cup Optional("pipeline_runs", {"execution_id"})))
ExecutionTargetsDown(s) ==
  Also(Also(Renaming(s, "executions", "target_id", "model_id"),
            DropColumn(s, "executions", "target_type")),
       DropColumn(s, "pipeline_runs", "execution_id"))

TargetKeyUp(s) == Change(References("executions", {"target_id"}),
                         Indexed("executions", {"target_id"}) \ s)
TargetKeyDown(s) == Change(Indexed("executions", {"target_id"}) \cap s,
                           References("executions", {"target_id"}))

\* Mutated: a table is forgotten.
FiledButOne == {"sources", "datasets", "pipelines", "visualizations", "dashboards", "models",
                "executions", "results", "experiments"}

FILED == {"sources", "datasets", "pipelines", "visualizations", "dashboards", "models",
          "executions", "results", "experiments", "evaluations"}
ProjectsUp == Added(
  (Table("projects", {"workspace_id", "name", "slug", "directory"},
         {"description", "is_default", "created_by", "updated_at"})
     \ Facts("projects", "required", {"created_at"}))
  \cup Unique("projects", {"uq_project_name", "uq_project_slug", "uq_project_directory"})
  \cup Indexed("projects", {"workspace_id"})
  \cup UNION {Filed(t) : t \in FILED})
ProjectsDown(s) ==
  Also(Removed(UNION {Indexed(t, {"project_id"}) \cup WholeColumn(s, t, "project_id")
                        : t \in FILED}),
       DropTables(s, {"projects"}))

-----------------------------------------------------------------------------
\* down_revision, as the order of the chain.
Chain == <<"initial", "operations", "modelScope", "demote", "modelStatus", "trials",
           "deployments", "heartbeat", "jobs", "inlineSteps", "workspaces", "attempts",
           "apiKeys", "sharing", "scheduleTargets", "direction", "executionTargets",
           "targetKey", "projects">>
LastRevision == Len(Chain)

Upgrade(m, s) ==
  CASE m = "initial" -> InitialUp             [] m = "operations" -> OperationsUp
    [] m = "modelScope" -> ModelScopeUp       [] m = "demote" -> DemoteUp
    [] m = "modelStatus" -> ModelStatusUp     [] m = "trials" -> TrialsUp(s)
    [] m = "deployments" -> DeploymentsUp(s)  [] m = "heartbeat" -> HeartbeatUp
    [] m = "jobs" -> JobsUp                   [] m = "inlineSteps" -> InlineStepsUp(s)
    [] m = "workspaces" -> WorkspacesUp(s)    [] m = "attempts" -> AttemptsUp
    [] m = "apiKeys" -> ApiKeysUp             [] m = "sharing" -> SharingUp
    [] m = "scheduleTargets" -> ScheduleTargetsUp(s)
    [] m = "direction" -> DirectionUp
    [] m = "executionTargets" -> ExecutionTargetsUp(s)
    [] m = "targetKey" -> TargetKeyUp(s)      [] m = "projects" -> ProjectsUp

Downgrade(m, s) ==
  CASE m = "initial" -> InitialDown(s)        [] m = "operations" -> OperationsDown(s)
    [] m = "modelScope" -> ModelScopeDown(s)  [] m = "demote" -> DemoteDown
    [] m = "modelStatus" -> ModelStatusDown(s) [] m = "trials" -> TrialsDown(s)
    [] m = "deployments" -> DeploymentsDown   [] m = "heartbeat" -> HeartbeatDown(s)
    [] m = "jobs" -> JobsDown(s)              [] m = "inlineSteps" -> InlineStepsDown(s)
    [] m = "workspaces" -> WorkspacesDown(s)  [] m = "attempts" -> AttemptsDown(s)
    [] m = "apiKeys" -> ApiKeysDown(s)        [] m = "sharing" -> SharingDown(s)
    [] m = "scheduleTargets" -> ScheduleTargetsDown(s)
    [] m = "direction" -> DirectionDown(s)
    [] m = "executionTargets" -> ExecutionTargetsDown(s)
    [] m = "targetKey" -> TargetKeyDown(s)    [] m = "projects" -> ProjectsDown(s)

(* Rows that matter: executions of a step model, of an inline step ("un-   *)
(* targeted"), of a pipeline, of a model deleted since ("orphan"); two     *)
(* rows of one name in different workspaces ("twins").                     *)
RowKinds == {"stepModel", "untargeted", "pipelineRun", "orphan", "twins"}

\* inlineSteps folds step models into their steps; their executions stay.
RowsUp(m) == IF m = "inlineSteps" /\ "stepModel" \in rows
             THEN (rows \ {"stepModel"}) \cup {"untargeted"} ELSE rows

\* targetKey deletes what did not run a model before it restores the key.
RowsDown(m) == IF m = "targetKey" THEN rows \ {"pipelineRun"} ELSE rows

\* What a restored constraint does not put up with.
Refused(m) ==
  CASE m = "inlineSteps" -> {"untargeted"}
    [] m = "workspaces" -> {"twins"}
    [] m = "targetKey" -> {"orphan", "pipelineRun"}
    [] OTHER -> {}

MigrationInit == revision = 0 /\ schema = {} /\ rows = {}

CanUpgrade == Applies(Upgrade(Chain[revision + 1], schema), schema)

UpgradeOne ==
  /\ revision < LastRevision /\ CanUpgrade
  /\ schema' = After(Upgrade(Chain[revision + 1], schema), schema)
  /\ rows' = RowsUp(Chain[revision + 1])
  /\ revision' = revision + 1

CanDowngrade ==
  /\ Applies(Downgrade(Chain[revision], schema), schema)
  /\ RowsDown(Chain[revision]) \cap Refused(Chain[revision]) = {}

DowngradeOne ==
  /\ revision > 0 /\ CanDowngrade
  /\ schema' = After(Downgrade(Chain[revision], schema), schema)
  /\ rows' = IF revision = 1 THEN {} ELSE RowsDown(Chain[revision])
  /\ revision' = revision - 1

\* The program of the time: pipeline steps that were models, up to inlineSteps.
RunOldProgram ==
  /\ revision \in 3..9
  /\ rows' = rows \cup {"stepModel"}
  /\ UNCHANGED <<revision, schema>>

\* The program as it is now.
RunProgram ==
  /\ revision = LastRevision
  /\ \E kind \in RowKinds \ {"stepModel"} : rows' = rows \cup {kind}
  /\ UNCHANGED <<revision, schema>>

MigrationNext == UpgradeOne \/ DowngradeOne \/ RunOldProgram \/ RunProgram

MigrationSpec == MigrationInit /\ [][MigrationNext]_migrationVars

-----------------------------------------------------------------------------
(* Properties.                                                             *)

MigrationTypeOK ==
  /\ revision \in 0..LastRevision /\ rows \subseteq RowKinds
  /\ \A f \in schema : f[2] \in Kinds

NotRequired(s) == {f \in s : f[2] # "required"}

\* Whatever ups and downs a database went through, at the head it has the
\* tables, columns, indexes, unique and foreign keys the ORM declares, and
\* demands no column the ORM may leave out; at the base nothing is left
\* (tests/test_migrations.py).
HeadMatchesRows ==
  /\ revision = LastRevision =>
       /\ NotRequired(schema) = NotRequired(Metadata)
       /\ schema \subseteq Metadata
  /\ revision = 0 => schema = {}

\* Every upgrade finds what it expects, and so does every downgrade, unless
\* rows stand in its way: runs of inline pipeline steps, runs of models since
\* deleted, or names shared between workspaces.
WayStaysOpen ==
  /\ revision < LastRevision => CanUpgrade
  /\ revision > 0 /\ rows \cap {"untargeted", "orphan", "twins"} = {} => CanDowngrade

\* A database follows its revision, and can go on from any of them.
MigrationsHold == HeadMatchesRows /\ WayStaysOpen
=============================================================================
