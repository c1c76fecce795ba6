--------------------------- MODULE ExperimentRuns ---------------------------
(***************************************************************************)
(* One experiment of the evaluation module: its trials, the executions a   *)
(* run of the experiment submits, the evaluations recorded for them, and   *)
(* the leaderboard computed from all of that.                              *)
(*                                                                         *)
(* A run is tied to its trial only by the name written into it when it was *)
(* submitted (`context["trial"]`); the leaderboard looks runs up by the    *)
(* name the trial has now.  Sessions read the experiment and write it back *)
(* whole.                                                                  *)
(***************************************************************************)
EXTENDS Integers, Sequences, FiniteSets, SequencesExt

CONSTANTS Targets,       \* models and pipelines
          TargetName,    \* what each is called
          Labels,        \* labels given to trials
          NoLabel,
          Scores,        \* values of the primary metric
          NoScore,       \* the metric was not reported
          Comparers,     \* sessions
          RunScanLimit,  \* _RUN_SCAN_LIMIT
          Proposals,     \* trials the sessions write (bound)
          MaxTrials, MaxRuns  \* bounds

ASSUME ExperimentConstants ==
  /\ TargetName \in [Targets -> STRING] /\ NoLabel \notin Labels
  /\ Scores \subseteq Int /\ NoScore \notin Int
  /\ RunScanLimit \in Nat \ {0}
  /\ Proposals \subseteq [target: Targets, label: Labels \cup {NoLabel}]
  /\ IsFiniteSet(Proposals)

VARIABLES
  trials,     \* the experiment row's trials
  lowerWins,  \* primary_direction = "lower"
  comparing,  \* what each session has read
  trialRuns,  \* executions with this experiment's id, oldest first
  judged      \* newest evaluation of each run that has one

experimentVars == <<trials, lowerWins, comparing, trialRuns, judged>>

Trial == [target: Targets, label: Labels \cup {NoLabel}]
TrialRun == [trial: Trial, name: Labels \cup Targets,
             status: {"pending", "succeeded", "failed"}, score: Scores \cup {NoScore}]
NotReading == [open |-> FALSE, trials |-> {}]
Comparison == [open: BOOLEAN, trials: SUBSET Trial]

ExperimentTypeOK ==
  /\ trials \subseteq Trial
  /\ lowerWins \in BOOLEAN
  /\ comparing \in [Comparers -> Comparison]
  /\ trialRuns \in Seq(TrialRun)
  /\ DOMAIN judged \subseteq DOMAIN trialRuns
  /\ judged \in [DOMAIN judged -> Scores \cup {NoScore}]

-----------------------------------------------------------------------------
(* The leaderboard, computed from the committed rows.                      *)

\* A trial's name: its label, or what it compares.
RecordedName(t) == IF t.label # NoLabel THEN t.label ELSE t.target
RowName(t) == IF t.label # NoLabel THEN t.label ELSE TargetName[t.target]

\* Only the newest RunScanLimit executions are looked at.
Scanned == {r \in DOMAIN trialRuns : r > Len(trialRuns) - RunScanLimit}
Succeeded == {r \in Scanned : trialRuns[r].status = "succeeded"}
NewestOf(runs) == {r \in runs : \A q \in runs : q <= r}

\* _latest_run_per_trial: the newest success under each recorded name.
NewestNamed(name) == NewestOf({r \in Succeeded : trialRuns[r].name = name})

\* Mutated: matched on the target alone.
RunOfTarget(t) == NewestNamed(t.target)

\* The run of a row: by the name shown, else by the target.  A set of at most
\* one run.
ShownRun(t) ==
  IF NewestNamed(RowName(t)) # {} THEN NewestNamed(RowName(t))
  ELSE NewestNamed(t.target)

\* An evaluation outranks the run's own metrics, even one that lacks the primary.
ScoreOf(r) == IF r \in DOMAIN judged THEN judged[r] ELSE trialRuns[r].score

RowScore(t) == IF ShownRun(t) = {} THEN NoScore
               ELSE ScoreOf(CHOOSE r \in ShownRun(t) : TRUE)

\* Mutated: the biggest is always the best.
BetterBigger(t, u) ==
  IF RowScore(t) = NoScore \/ RowScore(u) = NoScore
  THEN RowScore(t) # NoScore /\ RowScore(u) = NoScore
  ELSE RowScore(t) > RowScore(u)

\* The sort key: trials without a value last, then by the direction.
Before(t, u) ==
  IF RowScore(t) = NoScore \/ RowScore(u) = NoScore
  THEN RowScore(t) # NoScore /\ RowScore(u) = NoScore
  ELSE IF lowerWins THEN RowScore(t) < RowScore(u) ELSE RowScore(t) > RowScore(u)

\* The trials in the order of the key; those it does not tell apart, in any.
Board == CHOOSE board \in SetToSeqs(trials) :
           \A i, j \in DOMAIN board : i < j => ~ Before(board[j], board[i])

-----------------------------------------------------------------------------
ExperimentInit ==
  /\ trials = {}
  /\ lowerWins \in BOOLEAN
  /\ comparing = [s \in Comparers |-> NotReading]
  /\ trialRuns = <<>> /\ judged = <<>>

ReadExperiment(s) ==
  /\ ~ comparing[s].open
  /\ comparing' = [comparing EXCEPT
       ![s] = [open |-> TRUE, trials |-> trials]]
  /\ UNCHANGED <<trials, lowerWins, trialRuns, judged>>

\* PATCH: the trials are replaced; the rest of what was read is written too.
EditTrials(s) ==
  /\ comparing[s].open
  /\ \E new \in SUBSET Proposals : Cardinality(new) <= MaxTrials /\ trials' = new
  /\ comparing' = [comparing EXCEPT ![s] = NotReading]
  /\ UNCHANGED <<lowerWins, trialRuns, judged>>

Submission(t) == [trial |-> t, name |-> RecordedName(t),
                  status |-> "pending", score |-> NoScore]

\* run(): every trial can run and is submitted, and the experiment written
\* back, in one transaction.
RunTrials(s) ==
  /\ comparing[s].open /\ comparing[s].trials # {}
  /\ Len(trialRuns) + Cardinality(comparing[s].trials) <= MaxRuns
  /\ \E batch \in SetToSeqs(comparing[s].trials) :
       trialRuns' = trialRuns \o [i \in DOMAIN batch |-> Submission(batch[i])]
  /\ trials' = comparing[s].trials
  /\ comparing' = [comparing EXCEPT ![s] = NotReading]
  /\ UNCHANGED <<lowerWins, judged>>

\* A trial that cannot run stops the batch: check() foresees that its target is
\* gone, a submission that raises rolls the request back.
RefuseTrials(s) ==
  /\ comparing[s].open
  /\ comparing' = [comparing EXCEPT ![s] = NotReading]
  /\ UNCHANGED <<trials, lowerWins, trialRuns, judged>>

EndTrialRun(r) ==
  /\ trialRuns[r].status = "pending"
  /\ \/ \E score \in Scores \cup {NoScore} :
          trialRuns' = [trialRuns EXCEPT ![r].status = "succeeded", ![r].score = score]
     \/ trialRuns' = [trialRuns EXCEPT ![r].status = "failed"]
  /\ UNCHANGED <<trials, lowerWins, comparing, judged>>

\* EvaluationService.record: a judgement of any run, the newest one counts.
JudgeRun(r) ==
  /\ \E score \in Scores \cup {NoScore} :
       judged' = [q \in DOMAIN judged \cup {r} |-> IF q = r THEN score ELSE judged[q]]
  /\ UNCHANGED <<trials, lowerWins, comparing, trialRuns>>

ExperimentNext ==
  \/ \E s \in Comparers :
       ReadExperiment(s) \/ EditTrials(s) \/ RunTrials(s) \/ RefuseTrials(s)
  \/ \E r \in DOMAIN trialRuns : EndTrialRun(r) \/ JudgeRun(r)

ExperimentSpec == ExperimentInit /\ [][ExperimentNext]_experimentVars

-----------------------------------------------------------------------------
(* Properties.                                                             *)

\* Two trials a name cannot tell apart: one's runs are found under a name the
\* other is looked up by.
Confusable(t, u) == RecordedName(u) \in {RowName(t), t.target}

\* A row shows its own trial's newest success within the scan, and nothing
\* when there is none, unless some trial ever run shares a name with it: not a
\* run of an edited or deleted trial, not an older run, whichever run ended or
\* was judged last (leaderboard, _latest_run_per_trial).
BoardShowsOwnRuns ==
  \A t \in trials :
    (\A r \in Scanned : trialRuns[r].trial # t => ~ Confusable(t, trialRuns[r].trial)) =>
      /\ ShownRun(t) = NewestOf({r \in Succeeded : trialRuns[r].trial = t})
      /\ \A r \in ShownRun(t) :
           RowScore(t) = (IF r \in DOMAIN judged THEN judged[r] ELSE trialRuns[r].score)

\* The best trial leads whichever way better runs, and trials nobody measured
\* come last (leaderboard, _better_first).
BestLeads ==
  \A i, j \in 1..Len(Board) :
    i < j /\ RowScore(Board[j]) # NoScore =>
      /\ RowScore(Board[i]) # NoScore
      /\ IF lowerWins THEN RowScore(Board[i]) <= RowScore(Board[j])
                      ELSE RowScore(Board[i]) >= RowScore(Board[j])

\* The leaderboard tells what the runs measured.
BoardIsTrue == BoardShowsOwnRuns /\ BestLeads
=============================================================================
