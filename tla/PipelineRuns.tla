---------------------------- MODULE PipelineRuns ----------------------------
(***************************************************************************)
(* One pipeline of the orchestration module and a run of it: the waves of  *)
(* steps, the threads a wave runs in (each with a database session of its  *)
(* own), the tables handed from wave to wave, and what happens around the  *)
(* run meanwhile: the pipeline is edited, its dataset is refreshed, a      *)
(* dataset a step merges in is deleted, the process dies.                  *)
(*                                                                         *)
(* A definition (what a user saved) is a record of the step names, the     *)
(* step each reads from (`input_from`), the steps it merges (`inputs`),    *)
(* the datasets it merges (`input_datasets`), the steps that are nested    *)
(* pipelines, and a revision standing for their configurations.            *)
(***************************************************************************)
EXTENDS Naturals, FiniteSets

CONSTANTS Step,           \* step names
          NoStep,         \* `input_from` of a step that reads the dataset
          Dataset,        \* datasets a step may merge in
          Definition,     \* the definitions users save
          NoDefinition,   \* a step that has not run
          MaxParallel,    \* settings.pipeline_max_parallel
          MaxVersion      \* bound: versions of the input dataset

Upstream(d, s) == d.inputs[s] \cup ({d.from[s]} \ {NoStep})

\* The shape `validate_steps` leaves: references stay inside the pipeline.
DefinitionShape(d) ==
  /\ d.steps \subseteq Step
  /\ d.nested \subseteq d.steps
  /\ d.from \in [Step -> d.steps \cup {NoStep}]
  /\ d.inputs \in [Step -> SUBSET d.steps]
  /\ d.datasets \in [Step -> SUBSET Dataset]
  /\ d.revision \in Nat

ASSUME PipelineConstants ==
  /\ IsFiniteSet(Step) /\ NoStep \notin Step
  /\ \A d \in Definition : DefinitionShape(d)
  /\ NoDefinition \notin Definition
  /\ MaxParallel \in Nat \ {0} /\ MaxVersion \in Nat

VARIABLES
  storedDefinition,  \* the pipeline row: committed, edited by users
  heldDefinition,    \* the entity the run read when it started; its snapshot
  inputVersion,      \* the input dataset's current version
  pinnedVersion,     \* PipelineRun.input_dataset_version_id
  readable,          \* merged datasets that can still be read
  runPhase,          \* where the run's thread is
  settled,           \* steps of the waves already over
  prepared,          \* steps of this wave whose inputs were gathered
  stepStatus,        \* StepRun.status
  ran,               \* the definition each step was run from
  hasResult,         \* steps with a StepRun.result_id
  rootsRead,         \* versions of the input dataset the steps have read
  produced,          \* steps whose table the run holds
  recordedRun        \* status of the run row once committed

pipelineVars == <<storedDefinition, heldDefinition, inputVersion, pinnedVersion,
                  readable, runPhase, settled, prepared, stepStatus, ran,
                  hasResult, rootsRead, produced, recordedRun>>

RunVersion == 0..MaxVersion
StepRunStatus == {"absent", "pending", "running", "succeeded", "failed", "cancelled"}
RunPhase == {"idle", "preparing", "running", "collecting"}

PipelineTypeOK ==
  /\ storedDefinition \in Definition
  /\ heldDefinition \in Definition
  /\ inputVersion \in RunVersion
  /\ pinnedVersion \in RunVersion
  /\ readable \subseteq Dataset
  /\ runPhase \in RunPhase
  /\ settled \subseteq Step
  /\ prepared \subseteq Step
  /\ stepStatus \in [Step -> StepRunStatus]
  /\ ran \in [Step -> Definition \cup {NoDefinition}]
  /\ hasResult \subseteq Step
  /\ rootsRead \subseteq RunVersion
  /\ produced \subseteq Step
  /\ recordedRun \in {"none", "succeeded", "failed"}

-----------------------------------------------------------------------------
(* Helpers: state formulae.                                                *)

\* Mutated: a step waits for the step it reads from, not for those it merges.
WaveOfReaders == {s \in heldDefinition.steps \ settled :
                    {heldDefinition.from[s]} \ {NoStep} \subseteq settled}

\* Mutated: a step whose input failed is never taken up.
WaveOfProduced == {s \in heldDefinition.steps \ settled :
                     Upstream(heldDefinition, s) \subseteq produced}

\* A wave holds the steps whose inputs all lie in earlier waves (`waves`).
Wave == {s \in heldDefinition.steps \ settled :
           Upstream(heldDefinition, s) \subseteq settled}

Feeds(d, s) == \E other \in d.steps : s \in Upstream(d, other)

\* A step without `input_from` reads the version the run was pinned to.
VersionRead(s) == {v \in {pinnedVersion} : heldDefinition.from[s] = NoStep}

\* Mutated: the merged steps are taken for granted.
ReaderMissing(s) ==
  \/ heldDefinition.from[s] # NoStep /\ heldDefinition.from[s] \notin produced
  \/ ~ (heldDefinition.datasets[s] \subseteq readable)

\* What `_step_inputs` finds missing.
InputsMissing(s) ==
  \/ heldDefinition.from[s] # NoStep /\ heldDefinition.from[s] \notin produced
  \/ ~ (heldDefinition.inputs[s] \subseteq produced)
  \/ ~ (heldDefinition.datasets[s] \subseteq readable)

Runnable == {s \in prepared : stepStatus[s] = "pending"}
RunningSteps == {s \in Step : stepStatus[s] = "running"}

\* Steps that get a thread: more than one, none of them a nested pipeline.
Threaded ==
  LET flat == prepared \ heldDefinition.nested
  IN  IF MaxParallel > 1 /\ Cardinality(flat) > 1 THEN flat ELSE {}

\* Mutated: whatever the step reports becomes its status.
StatusAsTold(d, s, outcome) == outcome

\* A step that produced nothing although a later one reads it has failed;
\* a nested pipeline is not asked.
StatusAfter(d, s, outcome) ==
  CASE outcome = "failed" -> "failed"
    [] outcome = "nothing" /\ Feeds(d, s) /\ s \notin d.nested -> "failed"
    [] OTHER -> "succeeded"

-----------------------------------------------------------------------------
(* The run.                                                                *)

PipelineInit ==
  /\ storedDefinition \in Definition
  /\ heldDefinition = storedDefinition
  /\ inputVersion = 0 /\ pinnedVersion = 0
  /\ readable = Dataset
  /\ runPhase = "idle"
  /\ settled = {} /\ prepared = {}
  /\ stepStatus = [s \in Step |-> "absent"]
  /\ ran = [s \in Step |-> NoDefinition]
  /\ hasResult = {} /\ rootsRead = {} /\ produced = {}
  /\ recordedRun = "none"

\* The pipeline and the dataset's current version are read once; the run row
\* is flushed, not committed.
StartRun ==
  /\ runPhase = "idle"
  /\ runPhase' = "preparing"
  /\ heldDefinition' = storedDefinition
  /\ pinnedVersion' = inputVersion
  /\ stepStatus' = [s \in Step |-> IF s \in storedDefinition.steps
                                   THEN "pending" ELSE "absent"]
  /\ ran' = [s \in Step |-> NoDefinition]
  /\ settled' = {} /\ prepared' = {}
  /\ hasResult' = {} /\ rootsRead' = {} /\ produced' = {}
  /\ recordedRun' = "none"
  /\ UNCHANGED <<storedDefinition, inputVersion, readable>>

\* A step of the wave is given its inputs, or cancelled for want of one.
PrepareStep(s) ==
  /\ runPhase = "preparing"
  /\ s \in Wave \ prepared /\ stepStatus[s] = "pending"
  /\ IF InputsMissing(s)
     THEN /\ stepStatus' = [stepStatus EXCEPT ![s] = "cancelled"]
          /\ UNCHANGED prepared
     ELSE /\ prepared' = prepared \cup {s}
          /\ UNCHANGED stepStatus
  /\ UNCHANGED <<storedDefinition, heldDefinition, inputVersion, pinnedVersion,
                 readable, runPhase, settled, ran, hasResult, rootsRead,
                 produced, recordedRun>>

\* Every step of the wave is prepared before any of them runs.
RunWave ==
  /\ runPhase = "preparing" /\ Wave # {}
  /\ \A s \in Wave \ prepared : stepStatus[s] = "cancelled"
  /\ runPhase' = "running"
  /\ UNCHANGED <<storedDefinition, heldDefinition, inputVersion, pinnedVersion,
                 readable, settled, prepared, stepStatus, ran, hasResult,
                 rootsRead, produced, recordedRun>>

\* A thread picks a step up and reads the pipeline again, in its own session;
\* a step edited away meanwhile raises.
StartInThread(s) ==
  /\ runPhase = "running" /\ s \in Runnable \cap Threaded
  /\ Cardinality(RunningSteps) < MaxParallel
  /\ IF s \in storedDefinition.steps
     THEN /\ stepStatus' = [stepStatus EXCEPT ![s] = "running"]
          /\ ran' = [ran EXCEPT ![s] = storedDefinition]
          /\ rootsRead' = rootsRead \cup VersionRead(s)
     ELSE /\ stepStatus' = [stepStatus EXCEPT ![s] = "failed"]
          /\ UNCHANGED <<ran, rootsRead>>
  /\ UNCHANGED <<storedDefinition, heldDefinition, inputVersion, pinnedVersion,
                 readable, runPhase, settled, prepared, hasResult, produced, recordedRun>>

\* A thread ends: its session commits, and only then is its record copied;
\* a commit that fails is a step that failed.
EndInThread(s) ==
  /\ stepStatus[s] = "running" /\ s \in Threaded
  /\ \E outcome \in {"failed", "nothing", "table"} :
       /\ stepStatus' = [stepStatus EXCEPT ![s] = StatusAfter(ran[s], s, outcome)]
       /\ hasResult' = hasResult \cup {x \in {s} : outcome = "table"}
  /\ UNCHANGED <<storedDefinition, heldDefinition, inputVersion, pinnedVersion,
                 readable, runPhase, settled, prepared, ran, rootsRead,
                 produced, recordedRun>>

\* Mutated: the run's own steps do not wait for the threads.
StartInlineAtOnce(s) ==
  /\ runPhase = "running" /\ s \in Runnable \ Threaded
  /\ stepStatus' = [stepStatus EXCEPT ![s] = "running"]
  /\ ran' = [ran EXCEPT ![s] = heldDefinition]
  /\ rootsRead' = rootsRead \cup VersionRead(s)
  /\ UNCHANGED <<storedDefinition, heldDefinition, inputVersion, pinnedVersion,
                 readable, runPhase, settled, prepared, hasResult, produced, recordedRun>>

\* The rest of the wave runs in the run's own thread and session, one step at
\* a time, once the threads are done (_run_one).
StartInline(s) ==
  /\ runPhase = "running" /\ s \in Runnable \ Threaded
  /\ RunningSteps = {} /\ Runnable \cap Threaded = {}
  /\ stepStatus' = [stepStatus EXCEPT ![s] = "running"]
  /\ ran' = [ran EXCEPT ![s] = heldDefinition]
  /\ rootsRead' = rootsRead \cup VersionRead(s)
  /\ UNCHANGED <<storedDefinition, heldDefinition, inputVersion, pinnedVersion,
                 readable, runPhase, settled, prepared, hasResult, produced, recordedRun>>

EndInline(s) ==
  /\ stepStatus[s] = "running" /\ s \notin Threaded
  /\ \E outcome \in {"failed", "nothing", "table"} :
       /\ stepStatus' = [stepStatus EXCEPT ![s] = StatusAfter(ran[s], s, outcome)]
       /\ hasResult' = hasResult \cup {x \in {s} : outcome = "table"}
  /\ UNCHANGED <<storedDefinition, heldDefinition, inputVersion, pinnedVersion,
                 readable, runPhase, settled, prepared, ran, rootsRead,
                 produced, recordedRun>>

WaveOver ==
  /\ runPhase = "running" /\ Runnable = {} /\ RunningSteps = {}
  /\ runPhase' = "collecting"
  /\ UNCHANGED <<storedDefinition, heldDefinition, inputVersion, pinnedVersion,
                 readable, settled, prepared, stepStatus, ran, hasResult,
                 rootsRead, produced, recordedRun>>

\* The wave's result tables are read; one that cannot be read is no table.
CollectTables ==
  /\ runPhase = "collecting"
  /\ \E unread \in SUBSET (prepared \cap hasResult) :
       produced' = produced \cup ((prepared \cap hasResult) \ unread)
  /\ settled' = settled \cup Wave
  /\ prepared' = {}
  /\ runPhase' = "preparing"
  /\ UNCHANGED <<storedDefinition, heldDefinition, inputVersion, pinnedVersion,
                 readable, stepStatus, ran, hasResult, rootsRead, recordedRun>>

\* _finish and the commit of the run's session: the whole pipeline entity is
\* written back, so its steps become again what they were at the start.
FinishRun ==
  /\ runPhase = "preparing" /\ settled = heldDefinition.steps
  /\ recordedRun' = IF \E s \in Step : stepStatus[s] = "failed"
                    THEN "failed" ELSE "succeeded"
  /\ storedDefinition' = heldDefinition
  /\ runPhase' = "idle"
  /\ UNCHANGED <<heldDefinition, inputVersion, pinnedVersion, readable, settled,
                 prepared, stepStatus, ran, hasResult, rootsRead, produced>>

\* The process dies, or the run's session breaks: everything not committed is
\* gone, the threads' committed steps stay behind without a run.
LoseRun ==
  /\ runPhase # "idle"
  /\ runPhase' = "idle"
  /\ stepStatus' = [s \in Step |-> "absent"]
  /\ rootsRead' = {} /\ settled' = {} /\ prepared' = {} /\ hasResult' = {} /\ produced' = {}
  /\ ran' = [s \in Step |-> NoDefinition]
  /\ UNCHANGED <<storedDefinition, heldDefinition, inputVersion, pinnedVersion,
                 readable, recordedRun>>

-----------------------------------------------------------------------------
(* Around the run.                                                         *)

EditPipeline ==
  /\ storedDefinition' \in Definition \ {storedDefinition}
  /\ UNCHANGED <<heldDefinition, inputVersion, pinnedVersion, readable, runPhase,
                 settled, prepared, stepStatus, ran, hasResult, rootsRead,
                 produced, recordedRun>>

RefreshInput ==
  /\ inputVersion < MaxVersion
  /\ inputVersion' = inputVersion + 1
  /\ UNCHANGED <<storedDefinition, heldDefinition, pinnedVersion, readable,
                 runPhase, settled, prepared, stepStatus, ran, hasResult,
                 rootsRead, produced, recordedRun>>

LoseDataset(d) ==
  /\ d \in readable
  /\ readable' = readable \ {d}
  /\ UNCHANGED <<storedDefinition, heldDefinition, inputVersion, pinnedVersion,
                 runPhase, settled, prepared, stepStatus, ran, hasResult,
                 rootsRead, produced, recordedRun>>

RunStep(s) ==
  \/ PrepareStep(s)
  \/ StartInThread(s) \/ EndInThread(s)
  \/ StartInline(s) \/ EndInline(s)

RunAlone == RunWave \/ WaveOver \/ CollectTables \/ FinishRun

PipelineNext ==
  \/ StartRun
  \/ \E s \in Step : RunStep(s)
  \/ RunAlone
  \/ LoseRun
  \/ EditPipeline
  \/ RefreshInput
  \/ \E d \in Dataset : LoseDataset(d)

PipelineSpec == PipelineInit /\ [][PipelineNext]_pipelineVars

-----------------------------------------------------------------------------
(* Properties.                                                             *)

\* No step runs before every step it reads from or merges has run and handed
\* its table on, whatever order the threads of a wave end in; and whoever reads
\* the pipeline's dataset reads the version recorded on the run, though it is
\* refreshed between two waves (services.py run, _run_in_parallel).
StepsAfterInputs ==
  /\ \A s \in Step :
       stepStatus[s] \in {"running", "succeeded", "failed"} =>
         Upstream(heldDefinition, s) \subseteq produced
  /\ rootsRead \subseteq {pinnedVersion}

\* A step is cancelled only for an input that never came: it is not given up
\* because a step it merges merely was not over yet (waves, _step_inputs).
CancelledForAReason ==
  \A s \in Step :
    stepStatus[s] = "cancelled" =>
      \/ ~ (Upstream(heldDefinition, s) \subseteq produced)
      \/ ~ (heldDefinition.datasets[s] \subseteq readable)

\* What runs in the run's own session runs alone: neither a thread of the wave
\* nor another step shares the session with it (_run_wave).
MainSessionAlone ==
  \A s \in Step :
    stepStatus[s] = "running" /\ s \notin Threaded => RunningSteps = {s}

\* A run that was started is over in the end: finished, or lost with its
\* process. The waves reach every step of an acyclic pipeline.
RunEnds == runPhase # "idle" ~> runPhase = "idle"
=============================================================================
