------------------------------- MODULE MCWork -------------------------------
(***************************************************************************)
(* The components built around the execution lifecycle, each on a small    *)
(* instance of its own.  They share no state in these models, so one run   *)
(* checks them side by side: `stage`, chosen at the start, names the one   *)
(* that moves; the others stay where they begin.                           *)
(***************************************************************************)
EXTENDS PipelineRuns, JobLifecycle, PipelineGraph, VersionStore,
        ExperimentRuns, Projects, Migrations, Accounts

CONSTANTS a, b, c, d1,       \* steps and a dataset
          Stages             \* the components that move

VARIABLE stage

workVars == <<stage, pipelineVars, jobVars, graphVars, versionVars,
              experimentVars, projectVars, migrationVars, accountVars>>

-----------------------------------------------------------------------------
(* Constants.                                                              *)

NoInputs == [s \in Step |-> {}]
FromDataset == [s \in Step |-> NoStep]
Saved(steps, from, inputs, datasets, nested, number) ==
  [steps |-> steps, from |-> from, inputs |-> inputs, datasets |-> datasets,
   nested |-> nested, revision |-> number]

\* A chain with a merge, a nested step that feeds two others, two independent
\* steps, and three of which one is nested.
SavedDefinitions ==
  { Saved({a, b, c}, [FromDataset EXCEPT ![c] = a], [NoInputs EXCEPT ![c] = {b}],
          NoInputs, {}, 1),
    Saved({a, b, c}, [FromDataset EXCEPT ![b] = a], [NoInputs EXCEPT ![c] = {b}],
          [NoInputs EXCEPT ![c] = {d1}], {a}, 2),
    Saved({a, b}, FromDataset, NoInputs, NoInputs, {}, 3),
    Saved({a, b, c}, FromDataset, NoInputs, NoInputs, {b}, 4) }

\* The first two of them.
TwoDefinitions == {d \in SavedDefinitions : d.revision <= 2}

\* The second model is called what the label of a trial may be.
ModelNames == [t \in Targets |-> IF t = "m1" THEN "alpha" ELSE "beta"]

\* All but the first model's trial under the label that is its name.
SomeTrials == {t \in Trial : t.target = "m1" => t.label = NoLabel}

-----------------------------------------------------------------------------
\* Where a component that does not move is left.
PipelinesRest == storedDefinition = CHOOSE d \in Definition : TRUE
VersionsRest == holder.definition = CHOOSE x \in Contents : TRUE
ExperimentsRest == lowerWins = FALSE
ProjectsRest == onDisk = {CHOOSE d \in Dirs : TRUE}

Init ==
  /\ stage \in Stages
  /\ PipelineInit /\ (stage # "pipelines" => PipelinesRest)
  /\ JobInit
  /\ GraphInit
  /\ VersionInit /\ (stage # "versions" => VersionsRest)
  /\ ExperimentInit /\ (stage # "experiments" => ExperimentsRest)
  /\ ProjectInit /\ (stage # "projects" => ProjectsRest)
  /\ MigrationInit
  /\ AccountInit

AlongsidePipelines ==
  /\ stage = "pipelines"
  /\ UNCHANGED <<stage, jobVars, graphVars, versionVars, experimentVars,
                 projectVars, migrationVars, accountVars>>

PipelinesMove == AlongsidePipelines /\ PipelineNext

AlongsideJobs ==
  /\ stage = "jobs"
  /\ UNCHANGED <<stage, pipelineVars, graphVars, versionVars, experimentVars,
                 projectVars, migrationVars, accountVars>>

JobsMove == AlongsideJobs /\ JobNext

AlongsideNesting ==
  /\ stage = "nesting"
  /\ UNCHANGED <<stage, pipelineVars, jobVars, versionVars, experimentVars,
                 projectVars, migrationVars, accountVars>>

NestingMoves == AlongsideNesting /\ GraphNext

VersionsMove ==
  /\ stage = "versions" /\ VersionNext
  /\ UNCHANGED <<stage, pipelineVars, jobVars, graphVars, experimentVars,
                 projectVars, migrationVars, accountVars>>

ExperimentsMove ==
  /\ stage = "experiments" /\ ExperimentNext
  /\ UNCHANGED <<stage, pipelineVars, jobVars, graphVars, versionVars,
                 projectVars, migrationVars, accountVars>>

ProjectsMove ==
  /\ stage = "projects" /\ ProjectNext
  /\ UNCHANGED <<stage, pipelineVars, jobVars, graphVars, versionVars,
                 experimentVars, migrationVars, accountVars>>

DatabaseMoves ==
  /\ stage = "migrations" /\ MigrationNext
  /\ UNCHANGED <<stage, pipelineVars, jobVars, graphVars, versionVars, experimentVars,
                 projectVars, accountVars>>

AccountsMove ==
  /\ stage = "accounts" /\ AccountNext
  /\ UNCHANGED <<stage, pipelineVars, jobVars, graphVars, versionVars, experimentVars,
                 projectVars, migrationVars>>

Next == \/ PipelinesMove \/ JobsMove \/ NestingMoves
        \/ VersionsMove \/ ExperimentsMove \/ ProjectsMove \/ DatabaseMoves
        \/ AccountsMove

WorkSpec == Init /\ [][Next]_workVars

\* The variables of the component that moves stay in their types.
WorkTypeOK ==
  /\ stage = "pipelines" => PipelineTypeOK
  /\ stage = "jobs" => JobTypeOK
  /\ stage = "nesting" => GraphTypeOK
  /\ stage = "versions" => VersionTypeOK
  /\ stage = "experiments" => ExperimentTypeOK
  /\ stage = "projects" => ProjectTypeOK
  /\ stage = "migrations" => MigrationTypeOK
  /\ stage = "accounts" => AccountTypeOK

\* Whatever revision a database is at, and whatever it was stored with, it is
\* what that revision says, and the readers find what they look for.
SchemaHolds == stage = "migrations" => MigrationsHold

-----------------------------------------------------------------------------
(* Fairness, of the component that moves.                                  *)

\* The run's thread and its steps go on; nobody makes it crash, or edits.
FairRun == (RunAlone \/ \E s \in Step : RunStep(s)) /\ AlongsidePipelines

\* A cancel waiting for the row and an open stream; workers keep sweeping and
\* take up what they swept, the database grants a lock to whoever keeps asking
\* for it, a handler ends.
FairApi(j) ==
  /\ SF_workVars(CancelJobWrite(j) /\ AlongsideJobs)
  /\ WF_workVars(PollWatch(j) /\ AlongsideJobs)

FairWorker(w) ==
  /\ SF_workVars(SweepAll(w) /\ AlongsideJobs)
  /\ WF_workVars(TakeSwept(w) /\ AlongsideJobs)
  /\ SF_workVars((ClaimJob(w) \/ EndUnstarted(w)) /\ AlongsideJobs)
  /\ WF_workVars(EndHandler(w) /\ AlongsideJobs)

\* A run descends as long as it can, the database grants a row to whoever waits
\* for it, and ends one of two runs that wait for each other.
FairNesting ==
  /\ \A r \in Runs : SF_workVars(Descend(r) /\ AlongsideNesting)
  /\ WF_workVars(BreakDeadlock /\ AlongsideNesting)

WorkFairness ==
  /\ WF_workVars(FairRun)
  /\ \A j \in Jobs : FairApi(j)
  /\ \A w \in JobWorkers : FairWorker(w)
  /\ FairNesting

FairWorkSpec == WorkSpec /\ WorkFairness
=============================================================================
