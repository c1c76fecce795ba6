--------------------------- MODULE PipelineRunsProofs ---------------------------
(***************************************************************************)
(* What a pipeline run guarantees for any number of steps, definitions,    *)
(* datasets and threads, whatever order the threads of a wave end in.      *)
(***************************************************************************)
EXTENDS PipelineRuns, TLAPS

USE PipelineConstants

(* The steps of a definition are steps. *)
LEMMA DefinitionSteps ==
  ASSUME NEW d \in Definition PROVE d.steps \subseteq Step
  BY DEF DefinitionShape

(* Whatever a step reports, its status is one of the end. *)
LEMMA StatusAfterEnds ==
  ASSUME NEW d, NEW s, NEW outcome
  PROVE  StatusAfter(d, s, outcome) \in {"failed", "succeeded"}
  BY DEF StatusAfter

(* The variables have their types at the start. *)
LEMMA PipelineTypeInit == PipelineInit => PipelineTypeOK
<1> SUFFICES ASSUME PipelineInit PROVE PipelineTypeOK
  OBVIOUS
<1>1. storedDefinition \in Definition /\ heldDefinition \in Definition
  BY DEF PipelineInit
<1>2. inputVersion \in RunVersion /\ pinnedVersion \in RunVersion
  BY DEF PipelineInit, RunVersion
<1> QED
  BY <1>1, <1>2 DEF PipelineInit, PipelineTypeOK, RunPhase, StepRunStatus

(* Every step keeps them. *)
LEMMA PipelineTypeNext ==
  PipelineTypeOK /\ [PipelineNext]_pipelineVars => PipelineTypeOK'
<1> SUFFICES ASSUME PipelineTypeOK, [PipelineNext]_pipelineVars PROVE PipelineTypeOK'
  OBVIOUS
<1> USE DefinitionSteps DEF PipelineTypeOK
<1>1. CASE StartRun
  BY <1>1 DEF StartRun, StepRunStatus, RunPhase
<1>2. ASSUME NEW s \in Step, RunStep(s) PROVE PipelineTypeOK'
  <2>1. CASE PrepareStep(s)
    BY <2>1 DEF PrepareStep, StepRunStatus
  <2>2. CASE StartInThread(s)
    <3>1. VersionRead(s) \subseteq RunVersion
      BY DEF VersionRead
    <3> QED
      BY <2>2, <3>1 DEF StartInThread, StepRunStatus
  <2>3. CASE StartInline(s)
    <3>1. VersionRead(s) \subseteq RunVersion
      BY DEF VersionRead
    <3> QED
      BY <2>3, <3>1 DEF StartInline, StepRunStatus
  <2>4. CASE EndInThread(s) \/ EndInline(s)
    <3>1. PICK outcome \in {"failed", "nothing", "table"} :
            /\ stepStatus' = [stepStatus EXCEPT ![s] = StatusAfter(ran[s], s, outcome)]
            /\ hasResult' = hasResult \cup {x \in {s} : outcome = "table"}
      BY <2>4 DEF EndInThread, EndInline
    <3>2. stepStatus' \in [Step -> StepRunStatus] /\ hasResult' \subseteq Step
      BY <3>1, StatusAfterEnds DEF StepRunStatus
    <3> QED
      BY <2>4, <3>2 DEF EndInThread, EndInline
  <2> QED
    BY <1>2, <2>1, <2>2, <2>3, <2>4 DEF RunStep
<1>3. CASE RunWave \/ WaveOver
  BY <1>3 DEF RunWave, WaveOver, RunPhase
<1>4. CASE CollectTables
  <2>1. Wave \subseteq Step
    BY DEF Wave
  <2>2. settled' \subseteq Step /\ produced' \subseteq Step
    BY <1>4, <2>1 DEF CollectTables
  <2> QED
    BY <1>4, <2>2 DEF CollectTables, RunPhase
<1>5. CASE FinishRun
  BY <1>5 DEF FinishRun, RunPhase
<1>6. CASE LoseRun
  BY <1>6 DEF LoseRun, RunPhase, StepRunStatus
<1>7. CASE EditPipeline
  BY <1>7 DEF EditPipeline
<1>8. CASE RefreshInput
  BY <1>8 DEF RefreshInput, RunVersion
<1>9. ASSUME NEW d \in Dataset, LoseDataset(d) PROVE PipelineTypeOK'
  BY <1>9 DEF LoseDataset
<1>10. CASE UNCHANGED pipelineVars
  BY <1>10 DEF pipelineVars
<1> QED
  BY <1>1, <1>2, <1>3, <1>4, <1>5, <1>6, <1>7, <1>8, <1>9, <1>10 DEF PipelineNext, RunAlone

(* Type correctness: every variable of the run keeps its type (services.py run). *)
THEOREM PipelineTypeCorrect == PipelineSpec => []PipelineTypeOK
  BY PipelineTypeInit, PipelineTypeNext, PTL DEF PipelineSpec

-----------------------------------------------------------------------------
(* Tables come from waves that are over, and only steps of the wave that is on
   are prepared, each with everything it reads in hand. *)
WavesInOrder ==
  /\ produced \subseteq settled
  /\ prepared \subseteq Wave
  /\ \A s \in prepared : Upstream(heldDefinition, s) \subseteq produced

(* The input a cancelled step went without is never to come: its step is over. *)
CancelledInVain ==
  \A s \in Step : stepStatus[s] = "cancelled" =>
    \/ \E u \in Upstream(heldDefinition, s) : u \in settled \ produced
    \/ ~ (heldDefinition.datasets[s] \subseteq readable)

(* Steps run while the wave does, and beside the run's own step no thread is
   running nor will be in this wave. *)
SessionsApart ==
  /\ runPhase # "running" => RunningSteps = {}
  /\ \A s \in RunningSteps : s \notin Threaded =>
       RunningSteps = {s} /\ Runnable \cap Threaded = {}

PipelineInv ==
  /\ PipelineTypeOK
  /\ WavesInOrder /\ StepsAfterInputs /\ CancelledInVain /\ SessionsApart

(* The quiet steps: those that leave the run's own variables alone. *)
Quiet ==
  UNCHANGED <<heldDefinition, pinnedVersion, runPhase, settled, prepared, stepStatus,
              ran, hasResult, rootsRead, produced>>

LEMMA QuietSteps ==
  ASSUME EditPipeline \/ RefreshInput \/ (\E d \in Dataset : LoseDataset(d))
         \/ UNCHANGED pipelineVars
  PROVE  Quiet /\ readable' \subseteq readable
  BY DEF EditPipeline, RefreshInput, LoseDataset, pipelineVars, Quiet

(* Tables of this wave join those of the waves before, and the wave is over. *)
LEMMA WavesInOrderNext ==
  PipelineTypeOK /\ WavesInOrder /\ [PipelineNext]_pipelineVars => WavesInOrder'
<1> SUFFICES ASSUME PipelineTypeOK, WavesInOrder, [PipelineNext]_pipelineVars
             PROVE  WavesInOrder'
  OBVIOUS
<1>1. CASE StartRun \/ LoseRun
  BY <1>1 DEF StartRun, LoseRun, WavesInOrder
<1>2. ASSUME NEW s \in Step, PrepareStep(s) PROVE WavesInOrder'
  <2>1. UNCHANGED <<heldDefinition, settled, produced>> /\ Wave' = Wave
    BY <1>2 DEF PrepareStep, Wave
  <2>2. prepared' = prepared
        \/ (prepared' = prepared \cup {s} /\ s \in Wave /\ ~InputsMissing(s))
    BY <1>2 DEF PrepareStep
  <2>3. ~InputsMissing(s) => Upstream(heldDefinition, s) \subseteq produced
    BY DEF InputsMissing, Upstream
  <2> QED
    BY <2>1, <2>2, <2>3 DEF WavesInOrder
<1>3. ASSUME NEW s \in Step, StartInThread(s) \/ EndInThread(s) \/ StartInline(s) \/ EndInline(s)
      PROVE  WavesInOrder'
  BY <1>3 DEF StartInThread, EndInThread, StartInline, EndInline, WavesInOrder, Wave
<1>4. CASE RunWave \/ WaveOver \/ FinishRun
  BY <1>4 DEF RunWave, WaveOver, FinishRun, WavesInOrder, Wave
<1>5. CASE CollectTables
  BY <1>5 DEF CollectTables, WavesInOrder
<1>6. CASE Quiet
  BY <1>6 DEF Quiet, WavesInOrder, Wave
<1> QED
  BY <1>1, <1>2, <1>3, <1>4, <1>5, <1>6, QuietSteps DEF PipelineNext, RunStep, RunAlone

(* What has started had everything it reads in hand, and keeps it. *)
LEMMA StepsAfterInputsNext ==
  /\ PipelineTypeOK /\ WavesInOrder /\ StepsAfterInputs
  /\ [PipelineNext]_pipelineVars
  => StepsAfterInputs'
<1> DEFINE Begun == {"running", "succeeded", "failed"}
<1> SUFFICES ASSUME PipelineTypeOK, WavesInOrder, StepsAfterInputs,
                    [PipelineNext]_pipelineVars
             PROVE  StepsAfterInputs'
  OBVIOUS
<1>0. stepStatus \in [Step -> StepRunStatus]
  BY DEF PipelineTypeOK
<1>1. CASE StartRun \/ LoseRun
  BY <1>1 DEF StartRun, LoseRun, StepsAfterInputs
<1>2. ASSUME UNCHANGED <<heldDefinition, pinnedVersion>>, produced \subseteq produced',
             rootsRead' \subseteq rootsRead \cup {pinnedVersion},
             \A x \in Step : stepStatus'[x] \in Begun =>
               stepStatus[x] \in Begun \/ x \in prepared
      PROVE  StepsAfterInputs'
  <2>1. ASSUME NEW x \in Step, stepStatus'[x] \in Begun
        PROVE  Upstream(heldDefinition, x) \subseteq produced'
    BY <1>2, <2>1 DEF StepsAfterInputs, WavesInOrder
  <2>2. rootsRead' \subseteq {pinnedVersion}
    BY <1>2 DEF StepsAfterInputs
  <2> QED
    BY <1>2, <2>1, <2>2 DEF StepsAfterInputs
<1>3. ASSUME NEW s \in Step, PrepareStep(s) PROVE StepsAfterInputs'
  BY <1>0, <1>2, <1>3 DEF PrepareStep
<1>4. ASSUME NEW s \in Step, StartInThread(s) \/ StartInline(s) PROVE StepsAfterInputs'
  <2>1. s \in prepared
    BY <1>4 DEF StartInThread, StartInline, Runnable
  <2>2. \A x \in Step : x # s => stepStatus'[x] = stepStatus[x]
    BY <1>0, <1>4 DEF StartInThread, StartInline
  <2>3. rootsRead' \subseteq rootsRead \cup {pinnedVersion}
    BY <1>4 DEF StartInThread, StartInline, VersionRead
  <2>4. UNCHANGED <<heldDefinition, pinnedVersion, produced>>
    BY <1>4 DEF StartInThread, StartInline
  <2> QED
    BY <1>2, <2>1, <2>2, <2>3, <2>4
<1>5. ASSUME NEW s \in Step, EndInThread(s) \/ EndInline(s) PROVE StepsAfterInputs'
  <2>1. stepStatus[s] \in Begun
    BY <1>5 DEF EndInThread, EndInline
  <2>2. \A x \in Step : x # s => stepStatus'[x] = stepStatus[x]
    BY <1>0, <1>5 DEF EndInThread, EndInline
  <2>3. UNCHANGED <<heldDefinition, pinnedVersion, produced, rootsRead>>
    BY <1>5 DEF EndInThread, EndInline
  <2> QED
    BY <1>2, <2>1, <2>2, <2>3
<1>6. CASE RunWave \/ WaveOver \/ FinishRun \/ CollectTables
  BY <1>2, <1>6 DEF RunWave, WaveOver, FinishRun, CollectTables
<1>7. CASE Quiet
  BY <1>2, <1>7 DEF Quiet
<1> QED
  BY <1>1, <1>3, <1>4, <1>5, <1>6, <1>7, QuietSteps DEF PipelineNext, RunStep, RunAlone

(* What a cancelled step went without never comes. *)
LEMMA CancelledInVainNext ==
  /\ PipelineTypeOK /\ WavesInOrder /\ CancelledInVain
  /\ [PipelineNext]_pipelineVars
  => CancelledInVain'
<1> SUFFICES ASSUME PipelineTypeOK, WavesInOrder, CancelledInVain,
                    [PipelineNext]_pipelineVars
             PROVE  CancelledInVain'
  OBVIOUS
<1>0. stepStatus \in [Step -> StepRunStatus]
  BY DEF PipelineTypeOK
<1>1. CASE StartRun \/ LoseRun
  BY <1>1 DEF StartRun, LoseRun, CancelledInVain
<1>2. ASSUME heldDefinition' = heldDefinition, readable' \subseteq readable,
             settled \ produced \subseteq settled' \ produced',
             \A x \in Step : stepStatus'[x] = "cancelled" => stepStatus[x] = "cancelled"
      PROVE  CancelledInVain'
  <2> SUFFICES ASSUME NEW x \in Step, stepStatus'[x] = "cancelled"
               PROVE  \/ \E u \in Upstream(heldDefinition, x) : u \in settled' \ produced'
                      \/ ~ (heldDefinition.datasets[x] \subseteq readable')
    BY <1>2 DEF CancelledInVain
  <2> QED
    BY <1>2 DEF CancelledInVain
<1>3. ASSUME NEW s \in Step, PrepareStep(s) PROVE CancelledInVain'
  <2>1. UNCHANGED <<heldDefinition, readable, settled, produced>>
    BY <1>3 DEF PrepareStep
  <2>2. CASE InputsMissing(s)
    <3>1. stepStatus' = [stepStatus EXCEPT ![s] = "cancelled"]
      BY <1>3, <2>2 DEF PrepareStep
    <3>2. Upstream(heldDefinition, s) \subseteq settled
      BY <1>3 DEF PrepareStep, Wave
    <3>3. \/ \E u \in Upstream(heldDefinition, s) : u \in settled \ produced
          \/ ~ (heldDefinition.datasets[s] \subseteq readable)
      BY <2>2, <3>2 DEF InputsMissing, Upstream
    <3> QED
      BY <1>0, <2>1, <3>1, <3>3 DEF CancelledInVain
  <2>3. CASE ~InputsMissing(s)
    <3>1. stepStatus' = stepStatus
      BY <1>3, <2>3 DEF PrepareStep
    <3> QED
      BY <1>2, <2>1, <3>1
  <2> QED
    BY <2>2, <2>3
<1>4. ASSUME NEW s \in Step, StartInThread(s) \/ StartInline(s) PROVE CancelledInVain'
  BY <1>0, <1>2, <1>4 DEF StartInThread, StartInline
<1>5. ASSUME NEW s \in Step, EndInThread(s) \/ EndInline(s) PROVE CancelledInVain'
  <2>1. PICK outcome \in {"failed", "nothing", "table"} :
          stepStatus' = [stepStatus EXCEPT ![s] = StatusAfter(ran[s], s, outcome)]
    BY <1>5 DEF EndInThread, EndInline
  <2>2. \A x \in Step : stepStatus'[x] = "cancelled" => stepStatus[x] = "cancelled"
    BY <1>0, <2>1, StatusAfterEnds
  <2>3. UNCHANGED <<heldDefinition, readable, settled, produced>>
    BY <1>5 DEF EndInThread, EndInline
  <2> QED
    BY <1>2, <2>2, <2>3
<1>6. CASE RunWave \/ WaveOver \/ FinishRun
  BY <1>2, <1>6 DEF RunWave, WaveOver, FinishRun
<1>7. CASE CollectTables
  <2>1. settled \ produced \subseteq settled' \ produced'
    <3>1. prepared \cap settled = {}
      BY DEF WavesInOrder, Wave
    <3> QED
      BY <1>7, <3>1 DEF CollectTables
  <2> QED
    BY <1>2, <1>7, <2>1 DEF CollectTables
<1>8. ASSUME Quiet, readable' \subseteq readable PROVE CancelledInVain'
  BY <1>2, <1>8 DEF Quiet
<1> QED
  BY <1>1, <1>3, <1>4, <1>5, <1>6, <1>7, <1>8, QuietSteps DEF PipelineNext, RunStep, RunAlone

(* While the wave runs it is known which of its steps get a thread. *)
LEMMA ThreadsKept ==
  ASSUME UNCHANGED <<prepared, heldDefinition>>
  PROVE  Threaded' = Threaded
  BY DEF Threaded

(* The run's own session is used by one step at a time, and no thread beside. *)
LEMMA SessionsApartNext ==
  PipelineTypeOK /\ SessionsApart /\ [PipelineNext]_pipelineVars => SessionsApart'
<1> SUFFICES ASSUME PipelineTypeOK, SessionsApart, [PipelineNext]_pipelineVars
             PROVE  SessionsApart'
  OBVIOUS
<1>0. stepStatus \in [Step -> StepRunStatus]
  BY DEF PipelineTypeOK
<1>1. CASE StartRun \/ LoseRun
  <2>1. RunningSteps' = {}
    BY <1>1 DEF StartRun, LoseRun, RunningSteps
  <2> QED
    BY <2>1 DEF SessionsApart
<1>2. ASSUME NEW s \in Step, PrepareStep(s) PROVE SessionsApart'
  <2>1. RunningSteps' = {}
    <3>1. RunningSteps = {}
      BY <1>2 DEF PrepareStep, SessionsApart
    <3> QED
      BY <1>0, <1>2, <3>1 DEF PrepareStep, RunningSteps
  <2> QED
    BY <2>1 DEF SessionsApart
<1>3. ASSUME NEW s \in Step, StartInThread(s) PROVE SessionsApart'
  <2>1. runPhase = "running" /\ runPhase' = runPhase /\ Threaded' = Threaded /\ s \in Threaded
    BY <1>3, ThreadsKept DEF StartInThread
  <2>2. \A x \in RunningSteps : x \in Threaded
    BY <1>3 DEF StartInThread, SessionsApart
  <2>3. RunningSteps' \subseteq RunningSteps \cup {s}
    BY <1>0, <1>3 DEF StartInThread, RunningSteps
  <2> QED
    BY <2>1, <2>2, <2>3 DEF SessionsApart
<1>4. ASSUME NEW s \in Step, StartInline(s) PROVE SessionsApart'
  <2>1. runPhase = "running" /\ runPhase' = runPhase /\ Threaded' = Threaded
        /\ prepared' = prepared
    BY <1>4, ThreadsKept DEF StartInline
  <2>2. RunningSteps' = {s}
    BY <1>0, <1>4 DEF StartInline, RunningSteps
  <2>3. Runnable' \cap Threaded = {}
    BY <1>0, <1>4, <2>1 DEF StartInline, Runnable
  <2> QED
    BY <2>1, <2>2, <2>3 DEF SessionsApart
<1>5. ASSUME NEW s \in Step, EndInThread(s) \/ EndInline(s) PROVE SessionsApart'
  <2>1. PICK outcome \in {"failed", "nothing", "table"} :
          stepStatus' = [stepStatus EXCEPT ![s] = StatusAfter(ran[s], s, outcome)]
    BY <1>5 DEF EndInThread, EndInline
  <2>2. Threaded' = Threaded /\ runPhase' = runPhase /\ prepared' = prepared
    BY <1>5, ThreadsKept DEF EndInThread, EndInline
  <2>3. s \in RunningSteps /\ RunningSteps' = RunningSteps \ {s}
    BY <1>0, <1>5, <2>1, StatusAfterEnds DEF RunningSteps, EndInThread, EndInline
  <2>4. Runnable' \subseteq Runnable
    <3>1. StatusAfter(ran[s], s, outcome) # "pending"
      BY StatusAfterEnds
    <3>2. \A x \in prepared : stepStatus'[x] = "pending" => stepStatus[x] = "pending"
      BY <1>0, <2>1, <3>1 DEF PipelineTypeOK
    <3> QED
      BY <2>2, <3>2 DEF Runnable
  <2> QED
    BY <2>2, <2>3, <2>4 DEF SessionsApart
<1>6. CASE RunWave
  <2>1. RunningSteps' = {}
    BY <1>6 DEF RunWave, SessionsApart, RunningSteps
  <2> QED
    BY <2>1 DEF SessionsApart
<1>7. CASE WaveOver \/ CollectTables \/ FinishRun
  <2>1. RunningSteps' = {}
    BY <1>7 DEF WaveOver, CollectTables, FinishRun, SessionsApart, RunningSteps
  <2> QED
    BY <2>1 DEF SessionsApart
<1>8. CASE Quiet
  <2>1. Threaded' = Threaded
    BY <1>8, ThreadsKept DEF Quiet
  <2> QED
    BY <1>8, <2>1 DEF Quiet, SessionsApart, RunningSteps, Runnable
<1> QED
  BY <1>1, <1>2, <1>3, <1>4, <1>5, <1>6, <1>7, <1>8, QuietSteps
     DEF PipelineNext, RunStep, RunAlone

(* The inductive invariant of a run. *)
THEOREM PipelineInvariance == PipelineSpec => []PipelineInv
<1>1. PipelineInit => PipelineInv
  <2> SUFFICES ASSUME PipelineInit PROVE PipelineInv
    OBVIOUS
  <2>1. RunningSteps = {} /\ \A s \in Step : stepStatus[s] = "absent"
    BY DEF PipelineInit, RunningSteps
  <2>2. produced = {} /\ prepared = {} /\ rootsRead = {}
    BY DEF PipelineInit
  <2> QED
    BY <2>1, <2>2, PipelineTypeInit
       DEF PipelineInv, WavesInOrder, StepsAfterInputs, CancelledInVain, SessionsApart
<1>2. PipelineInv /\ [PipelineNext]_pipelineVars => PipelineInv'
  BY PipelineTypeNext, WavesInOrderNext, StepsAfterInputsNext, CancelledInVainNext,
     SessionsApartNext DEF PipelineInv
<1> QED
  BY <1>1, <1>2, PTL DEF PipelineSpec

(* No step runs before all it reads from has handed its table on, and whoever
   reads the dataset reads the version the run is pinned to (run,
   _run_in_parallel). *)
THEOREM StepsAfterInputsHolds == PipelineSpec => []StepsAfterInputs
<1>1. PipelineInv => StepsAfterInputs
  BY DEF PipelineInv
<1> QED
  BY <1>1, PipelineInvariance, PTL

(* A step is cancelled only for an input that never came (_step_inputs). *)
THEOREM CancelledForAReasonHolds == PipelineSpec => []CancelledForAReason
<1>1. PipelineInv => CancelledForAReason
  BY DEF PipelineInv, CancelledInVain, CancelledForAReason
<1> QED
  BY <1>1, PipelineInvariance, PTL

(* What runs in the run's own session runs alone (_run_wave). *)
THEOREM MainSessionAloneHolds == PipelineSpec => []MainSessionAlone
<1>1. PipelineInv => MainSessionAlone
  BY DEF PipelineInv, SessionsApart, MainSessionAlone, RunningSteps
<1> QED
  BY <1>1, PipelineInvariance, PTL
=============================================================================
