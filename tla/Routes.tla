------------------------------- MODULE Routes -------------------------------
(***************************************************************************)
(* Who may call what.  A route is a handler, the permissions its guards    *)
(* ask for and what it stores: "nothing", "work" (resources and runs),     *)
(* "platform" (accounts, keys, workspaces, projects), "connection" (a      *)
(* source the server connects to), "own" (the caller's own account) or     *)
(* "note" (a trace of the reading itself).                                 *)
(***************************************************************************)
Role == {"admin", "editor", "viewer"}

ReadPermissions == {"DATA_READ", "ANALYSIS_READ", "MODEL_READ", "EXECUTION_READ",
                    "RESULT_READ", "APPLICATION_READ", "PLATFORM_READ"}
WritePermissions == {"DATA_WRITE", "ANALYSIS_WRITE", "MODEL_WRITE", "EXECUTION_RUN",
                     "RESULT_WRITE", "APPLICATION_WRITE"}
Permission == ReadPermissions \cup WritePermissions \cup {"DATA_CONNECT", "PLATFORM_ADMIN"}

ROLE_PERMISSIONS == [admin  |-> Permission,
                     editor |-> ReadPermissions \cup WritePermissions,
                     viewer |-> ReadPermissions]

ModuleGuard(read, write) == [safe |-> read, unsafe |-> write]

DATA_GUARD == ModuleGuard("DATA_READ", "DATA_WRITE")
ANALYSIS_GUARD == ModuleGuard("ANALYSIS_READ", "ANALYSIS_WRITE")
MODEL_GUARD == ModuleGuard("MODEL_READ", "MODEL_WRITE")
EXECUTION_GUARD == ModuleGuard("EXECUTION_READ", "EXECUTION_RUN")
SERVING_GUARD == ModuleGuard("EXECUTION_READ", "EXECUTION_READ")
RESULT_GUARD == ModuleGuard("RESULT_READ", "RESULT_WRITE")
APPLICATION_GUARD == ModuleGuard("APPLICATION_READ", "APPLICATION_WRITE")
PLATFORM_GUARD == ModuleGuard("PLATFORM_READ", "PLATFORM_ADMIN")
BUILTIN_APP_GUARD == ModuleGuard("APPLICATION_READ", "EXECUTION_RUN")

\* The unguarded routers.
NoGuard == [safe |-> "NONE", unsafe |-> "NONE"]

-----------------------------------------------------------------------------
\* A safe method that stores nothing, one that does, an unsafe one that
\* stores nothing, one that does.
Route(handlers, permission, stores) ==
  {[handler |-> h, needs |-> {permission} \ {"NONE"}, signedIn |-> permission # "NONE",
    stores |-> stores] : h \in handlers}

Reads(guard, handlers) == Route(handlers, guard.safe, "nothing")
Notes(guard, handlers) == Route(handlers, guard.safe, "note")
Asks(guard, handlers) == Route(handlers, guard.unsafe, "nothing")
Stores(guard, what, handlers) == Route(handlers, guard.unsafe, what)

\* `requires(permission)` and `CurrentUser`.
Requiring(permission, routes) ==
  {[r EXCEPT !.needs = @ \cup {permission}, !.signedIn = TRUE] : r \in routes}
AdminUser(routes) == Requiring("PLATFORM_ADMIN", routes)
CurrentUser(routes) == {[r EXCEPT !.signedIn = TRUE] : r \in routes}

-----------------------------------------------------------------------------
(* One definition per router.                                              *)

PlatformRoutes(guard) ==
  Reads(guard, {"health", "prometheus_metrics", "metrics_summary", "info", "overview",
                "execution_queue"})

ScheduleRoutes(guard) ==
  Reads(guard, {"list_schedules", "get_schedule", "schedule_statuses", "list_audit"})
  \cup Asks(guard, {"preview_schedule"})
  \cup Stores(guard, "work", {"create_schedule", "update_schedule", "pause_schedule",
                              "resume_schedule", "run_schedule", "delete_schedule"})

\* A source of an outbound type asks for DATA_CONNECT as well.
OUTBOUND_SOURCE_TYPES(routes) == Requiring("DATA_CONNECT", routes)

DataRoutes(guard) ==
  Reads(guard, {"list_source_types", "list_sources", "get_source", "preview_source",
                "list_datasets", "get_dataset", "list_dataset_versions", "preview_dataset",
                "preview_version", "get_schema", "list_schemas"})
  \cup Stores(guard, "work", {"create_source", "delete_source", "create_dataset",
                              "upload_dataset", "refresh_dataset", "delete_dataset"})
  \cup OUTBOUND_SOURCE_TYPES(Stores(guard, "connection", {"create_outbound_source"}))

PipelineRoutes(guard) ==
  Reads(guard, {"list_pipelines", "get_pipeline", "get_pipeline_graph",
                "list_pipeline_runs", "get_pipeline_run"})
  \cup Stores(guard, "work", {"create_pipeline", "create_pipeline_from_query",
                              "update_pipeline", "delete_pipeline", "run_pipeline"})

AnalysisRoutes(guard) ==
  Reads(guard, {"chart_options", "profile_version", "list_visualizations",
                "get_visualization", "render_visualization", "list_dashboards",
                "get_dashboard", "render_dashboard"})
  \cup Asks(guard, {"query_version", "series_version"})
  \cup Stores(guard, "work", {"create_visualization", "update_visualization",
                              "delete_visualization", "create_dashboard",
                              "update_dashboard", "add_dashboard_tile",
                              "update_dashboard_tile", "remove_dashboard_tile",
                              "delete_dashboard"})

ModelRoutes(guard) ==
  Reads(guard, {"list_providers", "list_transforms", "list_model_types", "list_models",
                "get_model", "validate_model", "list_model_versions"})
  \cup Stores(guard, "work", {"create_model", "update_model", "file_model",
                              "set_model_status", "delete_model", "publish_model_version"})

EvaluationRoutes(guard) ==
  Reads(guard, {"list_experiments", "get_experiment", "check_experiment",
                "experiment_leaderboard", "list_evaluations"})
  \cup Asks(guard, {"compare_experiments"})
  \cup Stores(guard, "work", {"create_experiment", "update_experiment", "run_experiment",
                              "delete_experiment", "create_evaluation"})

JobRoutes(guard) ==
  Reads(guard, {"list_jobs", "list_job_kinds", "get_job", "job_events"})
  \cup Stores(guard, "work", {"cancel_job", "retry_job"})

WorkspaceRoutes(guard) ==
  CurrentUser(Reads(guard, {"list_workspaces"}))
  \cup Reads(guard, {"get_workspace", "list_members"})
  \cup AdminUser(Stores(guard, "platform", {"create_workspace", "update_workspace",
                                            "delete_workspace", "add_member",
                                            "remove_member"}))

\* Listing projects creates the default one where it is missing.
ProjectRoutes(guard) ==
  Notes(guard, {"list_projects"})
  \cup Reads(guard, {"get_project", "project_holdings"})
  \cup CurrentUser(Stores(guard, "platform", {"create_project"}))
  \cup Stores(guard, "platform", {"update_project", "delete_project"})

ApiKeyRoutes(guard) ==
  AdminUser(Reads(guard, {"list_api_keys"})
            \cup Stores(guard, "platform", {"issue_api_key", "revoke_api_key",
                                            "delete_api_key"}))

ExecutionRoutes(guard) ==
  Reads(guard, {"list_execution_kinds", "list_executions", "get_execution"})
  \cup Stores(guard, "work", {"submit_execution", "cancel_execution"})

ServingRoutes(guard) == Asks(guard, {"invoke_model"})
PipelineServingRoutes(guard) == Asks(guard, {"invoke_pipeline"})

ResultsRoutes(guard) ==
  Reads(guard, {"list_result_kinds", "list_results", "get_result", "get_result_payload",
                "get_result_for_execution"})
  \cup Stores(guard, "work", {"materialise_result", "delete_result"})

LineageRoutes(guard) == Reads(guard, {"lineage", "kinds"})

\* An export is a GET that writes the file and the report's last export.
ReportRoutes(guard) ==
  Reads(guard, {"section_kinds", "list_reports", "get_report", "render_report"})
  \cup CurrentUser(Notes(guard, {"export_report"}))
  \cup Stores(guard, "work", {"create_report", "update_report", "delete_report"})

ApplicationRoutes(guard) ==
  Reads(guard, {"list_applications", "get_application", "view_application"})
  \cup Stores(guard, "work", {"create_application", "update_application",
                              "unpublish_application", "publish_application",
                              "share_application", "unshare_application",
                              "delete_application"})

MaintenanceReadRoutes(guard) == Reads(guard, {"catalogue", "fleet"})
MaintenanceAssetRoutes(guard) ==
  Reads(guard, {"asset_detail", "asset_series"}) \cup Stores(guard, "work", {"assess"})

TyphoonRoutes(guard) ==
  Reads(guard, {"list_methods", "get_categories", "get_coastline", "list_typhoons",
                "get_typhoon_track"})
  \cup Stores(guard, "work", {"predict", "precipitation"})

\* No module guard: single endpoints ask for a user or an administrator.
AuthRoutes(guard) ==
  Stores(guard, "own", {"login"}) \cup Reads(guard, {"auth_config"})
  \cup CurrentUser(Reads(guard, {"me"}) \cup Stores(guard, "own", {"change_password"}))
  \cup AdminUser(Reads(guard, {"list_users"})
                 \cup Stores(guard, "platform", {"create_user", "update_user",
                                                 "delete_user"}))

PublicRoutes(guard) == Reads(guard, {"open_shared_application"})

\* What plugins bring.
ContributedRoutes ==
  TyphoonRoutes(BUILTIN_APP_GUARD) \cup MaintenanceReadRoutes(BUILTIN_APP_GUARD)
  \cup MaintenanceAssetRoutes(BUILTIN_APP_GUARD)

GUARDED ==
  PlatformRoutes(PLATFORM_GUARD) \cup ScheduleRoutes(PLATFORM_GUARD)
  \cup DataRoutes(DATA_GUARD) \cup PipelineRoutes(DATA_GUARD)
  \cup AnalysisRoutes(ANALYSIS_GUARD) \cup ModelRoutes(MODEL_GUARD)
  \cup EvaluationRoutes(MODEL_GUARD) \cup JobRoutes(EXECUTION_GUARD)
  \cup WorkspaceRoutes(PLATFORM_GUARD) \cup ProjectRoutes(PLATFORM_GUARD)
  \cup ApiKeyRoutes(PLATFORM_GUARD) \cup ExecutionRoutes(EXECUTION_GUARD)
  \cup ServingRoutes(SERVING_GUARD) \cup PipelineServingRoutes(SERVING_GUARD)
  \cup ResultsRoutes(RESULT_GUARD) \cup LineageRoutes(RESULT_GUARD)
  \cup ReportRoutes(RESULT_GUARD) \cup ApplicationRoutes(APPLICATION_GUARD)

ApiRoutes == AuthRoutes(NoGuard) \cup GUARDED \cup PublicRoutes(NoGuard) \cup ContributedRoutes

RouteOf == [handler \in {r.handler : r \in ApiRoutes} |->
              CHOOSE r \in ApiRoutes : r.handler = handler]
=============================================================================
